---- MODULE Spec2Model ----
(***************************************************************************)
(* A model of the multi-worker trading system of najim2004/crypto-tool:    *)
(*   - the evaluation pipeline  (StrategyService.evaluateSymbol)           *)
(*   - the analyzer worker      (analyzeSymbols)                           *)
(*   - the coordinator          (CoreLoader.handleNewSignal)               *)
(*   - the signal monitor       (SignalMonitorService)                     *)
(*   - the worker pool          (WorkerPoolManager)                        *)
(* Each part has its own next-state relation over its own variables; the   *)
(* parts talk only through the store and through messages, so each is      *)
(* checked under its own specification.                                    *)
(*                                                                         *)
(* Prices are integers (ticks); the fixed entry price of 100 makes every   *)
(* percentage an exact integer.  Each clock names its unit where declared.  *)
(***************************************************************************)
EXTENDS Integers, Sequences, FiniteSets, TLC

VARIABLES
  \* ---- evaluation pipeline (one pass of evaluateSymbol) ----
  sPc,          \* "idle" | "regime" | "prime" | "standard" | "done"
  sIn,          \* the indicator values and closes of this pass
  sRegime,      \* the regime detectRegime returned ("NONE" before it ran)
  sTiers,       \* the tiers checkTier was called for in this pass, in order
  sCands,       \* the candidates this pass produced, in order
  \* ---- analyzer worker (one cycle of analyzeSymbols) ----
  aPc,          \* "idle" | "running"
  aRest,        \* the symbols the running cycle's loop has still to visit
  aEvaluated,   \* the evaluateSymbol calls of the cycle, with their outcome
  aPosted,      \* the messages the cycle posted to the coordinator, in order
  aCycles,      \* the number of cycles started
  \* ---- candle fetch of evaluateSymbol (one sanitizeKlines call) ----
  kPc,          \* "idle" | "fetched" | "done"
  kIn,          \* the resolution, the fetched candles and Date.now()
  kOut,         \* the candles sanitizeKlines returned
  \* ---- coordinator ----
  now,          \* Date.now(), in units of two hours
  handlers,     \* the invocations of handleNewSignal, by invocation number
  signalStore,  \* the persisted Signal collection, in insertion order
  signalCooldowns, \* CoreLoader.signalCooldowns (0: no entry)
  notified,     \* the candidates telegramService.sendSignal was called with
  coordRestarts,\* how often the coordinator process was restarted
  \* ---- signal monitor ----
  mSignals,     \* the Signal documents the monitor works on, by _id
  price,        \* per instrument, the close of its last 1m candle
  mPc,          \* "idle" | "scanning"
  openSignals,  \* the result of find({status: 'OPEN'}) of the running scan
  statusUpdates,\* the updates the running scan has collected
  posted,       \* the STATUS_UPDATE messages posted to the coordinator
  writes,       \* per Signal, the number of updateOne calls applied to it
  cleanScans,   \* complete scans since the price last changed (capped at 2)
  scanClean,    \* the price has not changed since the running scan began
  openAtMove,   \* the Signals that were OPEN when the price last changed
  eodSummaries, \* the daily summaries sent: the number of Signals in each
  riskNow,      \* Date.now() in the monitoring worker, in units of 5 minutes
  warningsSent, \* RiskMonitorService.warningsSent (0: no entry)
  warnings,     \* the early-exit warnings sent, in order
  monitorRestarts, \* how often the monitoring worker was started again
  riskScan,     \* the risk analysis of monitorPositions: its pc and locals
  failedWrites, \* per Signal, the updateOne calls that were rejected
  failedFetches,\* per Signal, the price fetches that gave no candle
  overlap,      \* the monitorPositions call the timer started while the
                \* previous one was still running: its pc and locals
  \* ---- worker pool ----
  workers,      \* WorkerPoolManager.workers: id -> WorkerInfo
  threads,      \* per worker id, whether its worker thread is running
  isShuttingDown,
  healthCheckInterval, \* the health-check timer is armed
  initPc,       \* the number of workers initialize() has created
  crashing,     \* the handleWorkerCrash calls awaiting their restart delay
  shutdownPc,   \* "none" | "terminating" | "done" | "exited"
  terminating,  \* the running threads shutdown() has called terminate() on
  exits,        \* per worker id, abnormal exits seen while not shutting down
  restarts,     \* per worker id, workers re-created by handleWorkerCrash
  removed,      \* the ids removed for exceeding the restart budget
  lastHealthCheck, \* per worker id, WorkerInfo.lastHealthCheck of its record
  poolNow,      \* Date.now() in the coordinator, in health-check intervals
  received,     \* the worker message handleWorkerMessage handled last
  emitted,      \* the coordinator events emitted for that message
  handled,      \* the number of worker messages handled
  healthReports, \* per run of the health check, the workers it warned about
  secondShutdown, \* a second shutdown() call: its pc and where the first was
  cleanExits    \* the ids whose thread exited with code 0 outside shutdown

anaVars == <<aPc, aRest, aEvaluated, aPosted, aCycles>>
klVars == <<kPc, kIn, kOut>>
stratVars == <<sPc, sIn, sRegime, sTiers, sCands, anaVars, klVars>>
coordVars == <<now, handlers, signalStore, signalCooldowns, notified,
               coordRestarts>>
monVars == <<mSignals, price, mPc, openSignals, statusUpdates, posted, writes,
             cleanScans, scanClean, openAtMove, eodSummaries,
             riskNow, warningsSent, warnings, monitorRestarts, riskScan,
             failedWrites,
             failedFetches, overlap>>
riskVars == <<riskNow, warningsSent, warnings, monitorRestarts, riskScan>>
poolVars == <<workers, threads, isShuttingDown, healthCheckInterval, initPc,
              crashing, shutdownPc, terminating, exits, restarts, removed,
              lastHealthCheck, poolNow, received, emitted, handled,
              healthReports, secondShutdown, cleanExits>>
msgVars == <<poolNow, received, emitted, handled, healthReports,
             secondShutdown, cleanExits>>
vars == <<stratVars, coordVars, monVars, poolVars>>

Symbols == {"BTCUSDT", "ETHUSDT"}

(***************************************************************************)
(*                     THE EVALUATION PIPELINE                             *)
(***************************************************************************)

\* The ATR values the 5m indicator computation returns are k * 5 for
\* k in 0 .. MaxAtrSteps; 0 is computeIndicators' fallback for a missing
\* ATR result.  Multiples of 5 keep totalTarget * 0.6 an integer.
MaxAtrSteps == 2
AtrValues == {k * 5 : k \in 0..MaxAtrSteps}

\* What one pass reads: the indicator values of computeIndicators at 1h,
\* 15m and 5m, the last closes, the 5m volume, the 4h close and EMA50 and
\* the order-flow delta of the last 5m candle.
Inputs ==
  [adx1h : {10, 18, 22, 30}, ema50_1h : {100}, lastClose1h : {99, 101},
   rsi1h : {32, 47, 53, 67}, rsi15m : {45, 67}, rsi5m : {45, 67},
   vwap1h : {100}, vwap15m : {100}, vwap5m : {100},
   lastClose15m : {99, 101}, lastClose5m : {99, 101},
   hist1h : {-1, 1}, hist15m : {-1, 1}, hist5m : {-1, 1},
   ema20_5m : {100}, currentVolume : {10, 15, 25}, volumeSMA5m : {10},
   close4h : {99, 101}, ema50_4h : {100}, delta : {-5, 5},
   atr5m : AtrValues, symbol : {"BTCUSDT"}]

NoInput == CHOOSE i \in Inputs : TRUE

NoSignal ==
  [symbol |-> "NONE", direction |-> "NONE", quality |-> "NONE",
   entryPrice |-> 0, stopLoss |-> 0, tp1 |-> 0, tp2 |-> 0, status |-> "NONE"]

\* x * 0.6
Times06(x) == (x * 6) \div 10

\* IndicatorService.isTrending
isTrending(ema50, close, rsi, strict) ==
  IF strict
    THEN IF close > ema50 /\ rsi > 50 THEN "UP"
         ELSE IF close < ema50 /\ rsi < 50 THEN "DOWN" ELSE "RANGE"
    ELSE IF close > ema50 /\ rsi > 45 THEN "UP"
         ELSE IF close < ema50 /\ rsi < 55 THEN "DOWN" ELSE "RANGE"

\* MarketRegimeService.detectRegime, called with the 4h candles (their close
\* and EMA50), {adx, ema50} of 1h and the last 1h close.
detectRegime(close4h, ema50_4h, adx, ema50, close1h) ==
  LET is4hBullish == close4h > ema50_4h
      is4hBearish == close4h < ema50_4h
      isStrongTrend == adx > 25
      isWeakTrend == adx < 20
      alignedBullish == is4hBullish /\ close1h > ema50
      alignedBearish == is4hBearish /\ close1h < ema50
  IN  IF isStrongTrend /\ alignedBullish THEN "TRENDING_UP"
      ELSE IF isStrongTrend /\ alignedBearish THEN "TRENDING_DOWN"
      ELSE IF isWeakTrend THEN (IF adx < 15 THEN "CHOPPY" ELSE "RANGING")
      ELSE "RANGING"

\* The levels checkTier computes for a LONG candidate.
LongLevels(entry, atr) ==
  LET totalTarget == atr * 6
  IN  [stopLoss |-> entry - atr * 2,
       tp1 |-> entry + Times06(totalTarget),
       tp2 |-> entry + totalTarget]

\* The levels checkTier computes for a SHORT candidate.
ShortLevels(entry, atr) ==
  LET totalTarget == atr * 6
  IN  [stopLoss |-> entry + atr * 2,
       tp1 |-> entry - Times06(totalTarget),
       tp2 |-> entry - totalTarget]

\* The closure checkTier of evaluateSymbol: the candidate of one tier, or
\* NoSignal (null).
checkTier(tier, in) ==
  LET isStrict == tier = "PRIME"
      minAdx == IF isStrict THEN 25 ELSE 20
      trend1h == isTrending(in.ema50_1h, in.lastClose1h, in.rsi1h, isStrict)
      isAdxValid == in.adx1h > minAdx
      volThreshold == IF isStrict THEN 2 ELSE 1
      isAggrVolume == in.currentVolume > in.volumeSMA5m * volThreshold
      trend4h == IF in.close4h > in.ema50_4h THEN "UP" ELSE "DOWN"
      primeFails ==
        \/ trend1h # trend4h
        \/ trend1h = "UP" /\ in.delta < 0
        \/ trend1h = "DOWN" /\ in.delta > 0
      longMin == 40
      longMax == IF isStrict THEN 65 ELSE 70
      shortMin == IF isStrict THEN 35 ELSE 30
      shortMax == 60
      validRsiLong ==
        /\ in.rsi1h > longMin /\ in.rsi1h < longMax
        /\ in.rsi15m > longMin /\ in.rsi15m < longMax
        /\ in.rsi5m > longMin /\ in.rsi5m < longMax
      validRsiShort ==
        /\ in.rsi1h < shortMax /\ in.rsi1h > shortMin
        /\ in.rsi15m < shortMax /\ in.rsi15m > shortMin
        /\ in.rsi5m < shortMax /\ in.rsi5m > shortMin
      aboveVwap ==
        /\ in.lastClose1h > in.vwap1h
        /\ in.lastClose15m > in.vwap15m
        /\ in.lastClose5m > in.vwap5m
      belowVwap ==
        /\ in.lastClose1h < in.vwap1h
        /\ in.lastClose15m < in.vwap15m
        /\ in.lastClose5m < in.vwap5m
      macdBull == in.hist1h > 0 /\ in.hist15m > 0 /\ in.hist5m > 0
      macdBear == in.hist1h < 0 /\ in.hist15m < 0 /\ in.hist5m < 0
      entry == in.lastClose5m
      long == LongLevels(entry, in.atr5m)
      short == ShortLevels(entry, in.atr5m)
  IN  IF trend1h = "RANGE" \/ ~isAdxValid THEN NoSignal
      ELSE IF ~isAggrVolume THEN NoSignal
      ELSE IF tier = "PRIME" /\ primeFails THEN NoSignal
      ELSE IF trend1h = "UP"
        THEN IF ~validRsiLong \/ ~aboveVwap \/ ~macdBull THEN NoSignal
             ELSE IF ~(in.lastClose5m > in.ema20_5m /\ in.lastClose5m > in.vwap5m)
               THEN NoSignal
             ELSE [symbol |-> in.symbol, direction |-> "LONG", quality |-> tier,
                   entryPrice |-> entry, stopLoss |-> long.stopLoss,
                   tp1 |-> long.tp1, tp2 |-> long.tp2, status |-> "OPEN"]
        ELSE IF ~validRsiShort \/ ~belowVwap \/ ~macdBear THEN NoSignal
             ELSE IF ~(in.lastClose5m < in.ema20_5m /\ in.lastClose5m < in.vwap5m)
               THEN NoSignal
             ELSE [symbol |-> in.symbol, direction |-> "SHORT", quality |-> tier,
                   entryPrice |-> entry, stopLoss |-> short.stopLoss,
                   tp1 |-> short.tp1, tp2 |-> short.tp2, status |-> "OPEN"]

\* evaluateSymbol's regime filter: `if (regime.type === 'CHOPPY') return null`
ChoppyFilterNever(regime) == FALSE
ChoppyFilter(regime) == regime = "CHOPPY"

\* evaluateSymbol's `if (primeSignal) return primeSignal`
PrimeReturnsNever(primeSignal) == FALSE
PrimeReturns(primeSignal) == primeSignal # NoSignal

\* evaluateSymbol up to the indicator computation: the candles are fetched
\* and the indicators computed.
EvalFetch ==
  /\ sPc = "idle"
  /\ \E in \in Inputs : sIn' = in
  /\ sPc' = "regime"
  /\ sRegime' = "NONE"
  /\ sTiers' = <<>>
  /\ sCands' = <<>>
  /\ UNCHANGED <<anaVars, klVars, coordVars, monVars,
                 poolVars>>

\* evaluateSymbol, "1. Market Regime & Trend Detection" and its filter.
EvalRegime ==
  /\ sPc = "regime"
  /\ sRegime' = detectRegime(sIn.close4h, sIn.ema50_4h, sIn.adx1h,
                             sIn.ema50_1h, sIn.lastClose1h)
  /\ sPc' = IF ChoppyFilter(sRegime') THEN "done" ELSE "prime"
  /\ UNCHANGED <<sIn, sTiers, sCands, anaVars, klVars, coordVars, monVars,
                 poolVars>>

\* evaluateSymbol, "1. Try PRIME (Strict)".
EvalPrime ==
  /\ sPc = "prime"
  /\ LET primeSignal == checkTier("PRIME", sIn)
     IN  /\ sTiers' = Append(sTiers, "PRIME")
         /\ IF PrimeReturns(primeSignal)
              THEN sCands' = Append(sCands, primeSignal) /\ sPc' = "done"
              ELSE sCands' = sCands /\ sPc' = "standard"
  /\ UNCHANGED <<sIn, sRegime, anaVars, klVars, coordVars, monVars,
                 poolVars>>

\* evaluateSymbol, "2. Try STANDARD (Relaxed)".
EvalStandard ==
  /\ sPc = "standard"
  /\ LET stdSignal == checkTier("STANDARD", sIn)
     IN  /\ sTiers' = Append(sTiers, "STANDARD")
         /\ sCands' = IF stdSignal # NoSignal
                        THEN Append(sCands, stdSignal) ELSE sCands
         /\ sPc' = "done"
  /\ UNCHANGED <<sIn, sRegime, anaVars, klVars, coordVars, monVars,
                 poolVars>>

\* The pass has returned and its locals are gone; the worker goes on to its
\* next pass.
EvalReturn ==
  /\ sPc = "done"
  /\ sPc' = "idle"
  /\ sIn' = NoInput
  /\ sRegime' = "NONE"
  /\ sTiers' = <<>>
  /\ sCands' = <<>>
  /\ UNCHANGED <<anaVars, klVars, coordVars, monVars,
                 poolVars>>

NextStrategy ==
  EvalFetch \/ EvalRegime \/ EvalPrime \/ EvalStandard \/ EvalReturn

\* No fetch is in progress.
NoKlines == [interval |-> "none", data |-> <<>>, now |-> 0]

InitStrategy ==
  /\ kPc = "idle"
  /\ kIn = NoKlines
  /\ kOut = <<>>
  /\ aPc = "idle"
  /\ aRest = <<>>
  /\ aEvaluated = <<>>
  /\ aPosted = <<>>
  /\ aCycles = 0
  /\ sPc = "idle"
  /\ sIn = NoInput
  /\ sRegime = "NONE"
  /\ sTiers = <<>>
  /\ sCands = <<>>

C6_TierExclusive ==
  /\ Len(sCands) <= 1
  /\ sTiers \in {<<>>, <<"PRIME">>, <<"PRIME", "STANDARD">>}
  /\ Len(sTiers) = 2 => checkTier("PRIME", sIn) = NoSignal
  /\ \A i \in 1..Len(sCands) :
       /\ sCands[i].quality \in {"PRIME", "STANDARD"}
       /\ sCands[i].quality = "PRIME" => sTiers = <<"PRIME">>
       /\ sCands[i].quality = "STANDARD" =>
            sTiers = <<"PRIME", "STANDARD">> /\ checkTier("PRIME", sIn) = NoSignal

\* A pass ended with a strict candidate although the relaxed tier would have
\* passed too.
C6_Witness ==
  /\ sPc = "done"
  /\ Len(sCands) = 1
  /\ sCands[1].quality = "PRIME"
  /\ checkTier("STANDARD", sIn) # NoSignal

\* C10: when the regime is CHOPPY the pass returns no candidate and calls
\* checkTier for neither tier.
C10_ChoppyShortCircuits ==
  sRegime = "CHOPPY" => sTiers = <<>> /\ sCands = <<>> /\ sPc = "done"

\* A pass has returned on a CHOPPY regime.
C10_Witness == sPc = "done" /\ sRegime = "CHOPPY"

(***************************************************************************)
(*                 THE CANDLE FETCH OF THE EVALUATION                      *)
(***************************************************************************)

\* The resolutions evaluateSymbol fetches.
Intervals == {"5m", "15m", "1h", "4h"}
\* The durationMs evaluateSymbol passes to sanitizeKlines for a resolution
\* (300000, 900000, 3600000, 14400000), in units of 5 minutes.
DurationMs(interval) ==
  IF interval = "5m" THEN 1
  ELSE IF interval = "15m" THEN 3
  ELSE IF interval = "1h" THEN 12
  ELSE 48
\* The number of candles of a fetch the model follows.
MaxCandles == 3

\* The answer of fetchKlines: n consecutive candles of the resolution, by
\* their open time, the oldest first.
Klines(interval, n) == [k \in 1 .. n |-> [time |-> (k - 1) * DurationMs(interval)]]

\* evaluateSymbol's helper: the last candle is removed when Date.now() is
\* before its open time plus the duration.
sanitizeKlinesDropsAtClose(data, durationMs, t) ==
  LET last == data[Len(data)]
  IN  IF t <= last.time + durationMs THEN SubSeq(data, 1, Len(data) - 1)
      ELSE data
sanitizeKlines(data, durationMs, t) ==
  LET last == data[Len(data)]
  IN  IF t < last.time + durationMs THEN SubSeq(data, 1, Len(data) - 1)
      ELSE data

\* fetchKlines answers for one resolution; the last candle has opened and
\* the clock reads some time up to just after its close.
FetchKlines ==
  /\ kPc = "idle"
  /\ \E interval \in Intervals, n \in 1 .. MaxCandles :
       LET data == Klines(interval, n)
           opened == data[n].time
       IN  \E t \in opened .. opened + DurationMs(interval) + 1 :
             kIn' = [interval |-> interval, data |-> data, now |-> t]
  /\ kPc' = "fetched"
  /\ kOut' = <<>>
  /\ UNCHANGED <<sPc, sIn, sRegime, sTiers, sCands, anaVars, coordVars,
                 monVars, poolVars>>

\* sanitizeKlines is applied to the answer.
SanitizeKlines ==
  /\ kPc = "fetched"
  /\ kOut' = sanitizeKlines(kIn.data, DurationMs(kIn.interval), kIn.now)
  /\ kPc' = "done"
  /\ UNCHANGED <<kIn, sPc, sIn, sRegime, sTiers, sCands, anaVars, coordVars,
                 monVars, poolVars>>

\* The indicators are computed and the candles go out of scope.
KlinesReturn ==
  /\ kPc = "done"
  /\ kPc' = "idle"
  /\ kIn' = NoKlines
  /\ kOut' = <<>>
  /\ UNCHANGED <<sPc, sIn, sRegime, sTiers, sCands, anaVars, coordVars,
                 monVars, poolVars>>

NextKlines == FetchKlines \/ SanitizeKlines \/ KlinesReturn

\* C29: at each resolution the candles handed to the indicators are the
\* fetched ones without the last when its close time, open time plus
\* duration, is later than the time of the evaluation, and all of them
\* otherwise; every candle but the last is kept, in order, and every candle
\* handed on has closed.
C29_OnlyClosedCandles ==
  kPc = "done" =>
    LET data == kIn.data
        n == Len(data)
        closeTime(c) == c.time + DurationMs(kIn.interval)
    IN  /\ kIn.interval \in Intervals
        /\ closeTime(data[n]) > kIn.now => Len(kOut) = n - 1
        /\ closeTime(data[n]) <= kIn.now => Len(kOut) = n
        /\ \A k \in DOMAIN kOut : kOut[k] = data[k]
        /\ \A k \in DOMAIN kOut : closeTime(kOut[k]) <= kIn.now

\* Three 4h candles were fetched one time unit before the last one closes:
\* two are handed on.
C29_Witness ==
  /\ kPc = "done"
  /\ kIn.interval = "4h"
  /\ Len(kIn.data) = 3
  /\ kIn.now = kIn.data[3].time + DurationMs("4h") - 1
  /\ Len(kOut) = 2

(***************************************************************************)
(*                        THE ANALYZER WORKER                              *)
(***************************************************************************)

\* The symbols of one analyzer worker, in the order of its workerData (the
\* head of the first symbol group).
AnalyzerSymbols == <<"BTCUSDT", "ETHUSDT", "SOLUSDT">>
\* Cycles of analyzeSymbols the model follows.
MaxCycles == 2
\* IndicatorService.computeIndicators: the least number of candles
MIN_CANDLES == 50
\* The number of closed candles a fetch of 100 leaves at the shortest
\* resolution: too few, just enough, all but the open one.
CandleCounts == {49, 50, 99}

\* What evaluateSymbol does for one instrument: fetchKlines rethrows a
\* failed request, computeIndicators throws below MIN_CANDLES, anything else
\* may throw, and otherwise the pipeline returns a candidate or null.
evaluateSymbol(fetchOk, candles, otherError, found) ==
  IF ~fetchOk THEN [cause |-> "fetch", outcome |-> "throws"]
  ELSE IF candles < MIN_CANDLES THEN [cause |-> "candles", outcome |-> "throws"]
  ELSE IF otherError THEN [cause |-> "exception", outcome |-> "throws"]
  ELSE IF found THEN [cause |-> "none", outcome |-> "signal"]
  ELSE [cause |-> "none", outcome |-> "null"]

\* The rest of analyzeSymbols' loop after one instrument: the catch inside
\* the loop body logs the error and the loop goes on.
LoopRestAbortsOnThrow(rest, outcome) ==
  IF outcome = "throws" THEN <<>> ELSE Tail(rest)
LoopRest(rest, outcome) == Tail(rest)

\* The polling timer calls analyzeSymbols.
CycleStart ==
  /\ aPc = "idle"
  /\ aCycles < MaxCycles
  /\ aPc' = "running"
  /\ aCycles' = aCycles + 1
  /\ aRest' = AnalyzerSymbols
  /\ aEvaluated' = <<>>
  /\ aPosted' = <<>>
  /\ UNCHANGED <<sPc, sIn, sRegime, sTiers, sCands, klVars, coordVars,
                 monVars, poolVars>>

\* One pass of analyzeSymbols' loop body: evaluateSymbol for the next symbol,
\* NEW_SIGNAL when it returned a candidate.
AnalyzeSymbol ==
  /\ aPc = "running"
  /\ aRest # <<>>
  /\ \E fetchOk, otherError, found \in BOOLEAN, candles \in CandleCounts :
       LET symbol == Head(aRest)
           r == evaluateSymbol(fetchOk, candles, otherError, found)
       IN  /\ aEvaluated' = Append(aEvaluated,
                 [symbol |-> symbol, cause |-> r.cause, outcome |-> r.outcome])
           /\ aPosted' = IF r.outcome = "signal"
                           THEN Append(aPosted, [type |-> "NEW_SIGNAL",
                                                 symbol |-> symbol])
                           ELSE aPosted
           /\ aRest' = LoopRest(aRest, r.outcome)
  /\ UNCHANGED <<aPc, aCycles, sPc, sIn, sRegime, sTiers, sCands, klVars,
                 coordVars, monVars, poolVars>>

\* analyzeSymbols' finally: the HEARTBEAT, and the cycle is over.
CycleFinish ==
  /\ aPc = "running"
  /\ aRest = <<>>
  /\ aPosted' = Append(aPosted, [type |-> "HEARTBEAT", symbol |-> "none"])
  /\ aPc' = "idle"
  /\ UNCHANGED <<aRest, aEvaluated, aCycles, sPc, sIn, sRegime, sTiers,
                 sCands, klVars, coordVars, monVars, poolVars>>

NextAnalyzer == CycleStart \/ AnalyzeSymbol \/ CycleFinish

\* The NEW_SIGNAL messages of the cycle for a symbol.
SignalsPostedFor(symbol) ==
  Cardinality({k \in DOMAIN aPosted :
                 aPosted[k].type = "NEW_SIGNAL" /\ aPosted[k].symbol = symbol})

\* C19: in a cycle no instrument is evaluated twice and an instrument whose
\* evaluation failed has no NEW_SIGNAL; when the cycle has ended every
\* instrument of the worker was evaluated once, in order, whatever failed
\* before it, each instrument that produced a candidate has its NEW_SIGNAL,
\* and the last message of the cycle is its only HEARTBEAT.
C19_FailureIsPerInstrument ==
  /\ \A k \in DOMAIN aEvaluated :
       /\ aEvaluated[k].symbol = AnalyzerSymbols[k]
       /\ aEvaluated[k].outcome = "throws" =>
            SignalsPostedFor(aEvaluated[k].symbol) = 0
       /\ aEvaluated[k].outcome = "signal" <=>
            SignalsPostedFor(aEvaluated[k].symbol) = 1
  /\ Len(aEvaluated) <= Len(AnalyzerSymbols)
  /\ (aPc = "idle" /\ aCycles > 0) =>
       /\ Len(aEvaluated) = Len(AnalyzerSymbols)
       /\ aPosted # <<>>
       /\ aPosted[Len(aPosted)].type = "HEARTBEAT"
       /\ Cardinality({k \in DOMAIN aPosted :
                         aPosted[k].type = "HEARTBEAT"}) = 1
  /\ aPc = "running" => \A k \in DOMAIN aPosted : aPosted[k].type # "HEARTBEAT"

\* A cycle has ended in which the first instrument failed for too few
\* candles, the second for a failed fetch, and the third produced a
\* candidate.
C19_Witness ==
  /\ aPc = "idle"
  /\ Len(aEvaluated) = 3
  /\ aEvaluated[1].cause = "candles"
  /\ aEvaluated[2].cause = "fetch"
  /\ aEvaluated[3].outcome = "signal"
  /\ aPosted = <<[type |-> "NEW_SIGNAL", symbol |-> "SOLUSDT"],
                 [type |-> "HEARTBEAT", symbol |-> "none"]>>

(***************************************************************************)
(*                          THE COORDINATOR                                *)
(***************************************************************************)

\* CoreLoader.COOLDOWN_DURATION (4 hours), in units of two hours
COOLDOWN_DURATION == 2
\* handleNewSignal's acceptance threshold: `aiResult.score >= 70`
AcceptScore == 70
\* The clock runs from COOLDOWN_DURATION (so that time 0, the value used for
\* "no previous signal", is a full cooldown in the past) to MaxTime.
MaxTime == 4
\* The number of NEW_SIGNAL messages of a run.
MaxSignals == 2
\* The number of coordinator restarts of a run.
MaxCoordRestarts == 1

\* The tiers checkTier stamps on its candidates (`quality: tier`).
Tiers == {"PRIME", "STANDARD"}
\* signalSchema.quality: enum ['PREMIUM', 'STANDARD']
QualityEnum == {"PREMIUM", "STANDARD"}
\* The scores aiService.scoreSignal returns.
Scores == {65, 82}

Max(a, b) == IF a >= b THEN a ELSE b

\* The documents of one instrument.
DocsOf(symbol) == {i \in DOMAIN signalStore : signalStore[i].symbol = symbol}

\* handleNewSignal's dbLastTime: the timestamp of
\* findOne({symbol}).sort({timestamp: -1}), or 0 when there is none.
DbLastTimeIgnored(symbol) == 0
DbLastTime(symbol) ==
  IF DocsOf(symbol) = {} THEN 0
  ELSE CHOOSE t \in {signalStore[i].timestamp : i \in DocsOf(symbol)} :
         \A i \in DocsOf(symbol) : signalStore[i].timestamp <= t

\* mongoose's validation of the document handed to SignalModel.create.
SchemaAccepts(doc) == doc.quality \in QualityEnum /\ doc.status = "OPEN"

\* A handler that has returned: its locals are gone.
Finished(h, outcome) ==
  [h EXCEPT !.pc = "done", !.outcome = outcome, !.now0 = 0,
            !.signal = [@ EXCEPT !.timestamp = 0]]

InitCoord ==
  /\ now = COOLDOWN_DURATION
  /\ handlers = <<>>
  /\ signalStore = <<>>
  /\ signalCooldowns = [s \in Symbols |-> 0]
  /\ notified = <<>>
  /\ coordRestarts = 0

\* Time passes.
Tick ==
  /\ now < MaxTime
  /\ now' = now + 1
  /\ UNCHANGED <<handlers, signalStore, signalCooldowns, notified,
                 coordRestarts, stratVars, monVars, poolVars>>

\* analyzeSymbols posts the candidate evaluateSymbol returned (its timestamp
\* is `new Date()` of the pass) as NEW_SIGNAL; handleWorkerMessage emits
\* 'signal' and handleNewSignal runs to its first await: `now = Date.now()`,
\* then findOne is issued.
ReceiveNewSignal ==
  /\ Len(handlers) < MaxSignals
  /\ \E symbol \in Symbols, tier \in Tiers :
       handlers' = Append(handlers,
         [signal |-> [symbol |-> symbol, quality |-> tier, timestamp |-> now],
          pc |-> "lookup", now0 |-> now, epoch |-> coordRestarts,
          dbOnly |-> FALSE, score |-> 0, fallback |-> FALSE,
          cooldownSet |-> FALSE, outcome |-> "none"])
  /\ UNCHANGED <<now, signalStore, signalCooldowns, notified, coordRestarts,
                 stratVars, monVars, poolVars>>

\* handleNewSignal from the answer of findOne to the call of scoreSignal:
\* the cooldown check.
LookupReturns(i) ==
  /\ handlers[i].pc = "lookup"
  /\ LET h == handlers[i]
         symbol == h.signal.symbol
         dbLastTime == DbLastTime(symbol)
         lastSignalTime == Max(signalCooldowns[symbol], dbLastTime)
         timeSinceLastSignal == h.now0 - lastSignalTime
         cooldownRemaining == COOLDOWN_DURATION - timeSinceLastSignal
         seen == [h EXCEPT !.dbOnly = signalCooldowns[symbol] = 0 /\ dbLastTime > 0]
     IN  handlers' = [handlers EXCEPT ![i] =
           IF cooldownRemaining > 0 THEN Finished(seen, "cooldown")
           ELSE [seen EXCEPT !.pc = "score"]]
  /\ UNCHANGED <<now, signalStore, signalCooldowns, notified,
                 coordRestarts, stratVars, monVars, poolVars>>

\* handleNewSignal from the answer of scoreSignal to the call of
\* SignalModel.create, or to its end when the score is below the threshold.
ScoreReturnsRecordsCooldown(i) ==
  /\ handlers[i].pc = "score"
  /\ \E score \in Scores :
       /\ handlers' = [handlers EXCEPT ![i] =
            IF score >= AcceptScore
              THEN [@ EXCEPT !.pc = "create", !.score = score]
              ELSE Finished([@ EXCEPT !.score = score], "discarded")]
       /\ signalCooldowns' =
            IF score >= AcceptScore THEN signalCooldowns
            ELSE [signalCooldowns EXCEPT ![handlers[i].signal.symbol] = now]
  /\ UNCHANGED <<now, signalStore, notified, coordRestarts, stratVars,
                 monVars, poolVars>>
ScoreReturns(i) ==
  /\ handlers[i].pc = "score"
  /\ \E score \in Scores :
       handlers' = [handlers EXCEPT ![i] =
         IF score >= AcceptScore
           THEN [@ EXCEPT !.pc = "create", !.score = score]
           ELSE Finished([@ EXCEPT !.score = score], "discarded")]
  /\ UNCHANGED <<now, signalStore, signalCooldowns, notified,
                 coordRestarts, stratVars, monVars, poolVars>>

\* AIService.models
Models == <<"gemini-2.5-flash", "gemini-2.5-pro">>
\* AIService's fallback score
FALLBACK_SCORE == 75
\* What one model does with the prompt: generateContent throws, the text has
\* no JSON object that parses, or it parses to a score.
Failure(kind) == [kind |-> kind, score |-> 0]
Scored(score) == [kind |-> "score", score |-> score]
Answers == {Failure("error"), Failure("unparsable"),
            Scored(65), Scored(FALLBACK_SCORE), Scored(82)}

\* scoreSignal's loop over the models from model k on: the first answer that
\* parses is returned; after the last model the fallback.
RECURSIVE TryModels(_, _)
TryModels(answers, k) ==
  IF k > Len(Models) THEN FALLBACK_SCORE
  ELSE IF answers[k].kind = "score" THEN answers[k].score
  ELSE TryModels(answers, k + 1)

\* AIService.scoreSignal: the score of the result it resolves to.
scoreSignalFallbackRejects(configured, answers) ==
  IF ~configured THEN 0
  ELSE IF \A k \in DOMAIN answers : answers[k].kind # "score" THEN 0
  ELSE TryModels(answers, 1)
scoreSignal(configured, answers) ==
  IF ~configured THEN FALLBACK_SCORE ELSE TryModels(answers, 1)

\* The provider gave no score: no API key, or every model failed.
ProviderUnavailable(configured, answers) ==
  ~configured \/ \A k \in DOMAIN answers : answers[k].kind \in {"error", "unparsable"}

\* handleNewSignal from the answer of scoreSignal, with the provider's
\* behaviour spelled out, to the call of SignalModel.create, or to its end
\* when the score is below the threshold.
ScoreSignalReturns(i) ==
  /\ handlers[i].pc = "score"
  /\ \E configured \in BOOLEAN, answers \in [DOMAIN Models -> Answers] :
       LET score == scoreSignal(configured, answers)
           scored == [handlers[i] EXCEPT
                        !.score = score,
                        !.fallback = ProviderUnavailable(configured, answers)]
       IN  handlers' = [handlers EXCEPT ![i] =
             IF score >= AcceptScore
               THEN [scored EXCEPT !.pc = "create"]
               ELSE Finished(scored, "discarded")]
  /\ UNCHANGED <<now, signalStore, signalCooldowns, notified,
                 coordRestarts, stratVars, monVars, poolVars>>

\* SignalModel.create answers: the document is validated against the schema
\* and inserted, and sendSignal is called; a validation error is caught by
\* handleNewSignal's catch, which only logs.
CreateReturnsNotifiesAnyway(i) ==
  /\ handlers[i].pc = "create"
  /\ LET h == handlers[i]
         doc == [symbol |-> h.signal.symbol, timestamp |-> h.signal.timestamp,
                 status |-> "OPEN", quality |-> h.signal.quality,
                 aiScore |-> h.score, by |-> i]
     IN  /\ signalStore' = IF SchemaAccepts(doc) THEN Append(signalStore, doc)
                           ELSE signalStore
         /\ handlers' = [handlers EXCEPT ![i].pc = "notify"]
  /\ UNCHANGED <<now, signalCooldowns, notified, coordRestarts,
                 stratVars, monVars, poolVars>>
CreateReturns(i) ==
  /\ handlers[i].pc = "create"
  /\ LET h == handlers[i]
         doc == [symbol |-> h.signal.symbol, timestamp |-> h.signal.timestamp,
                 status |-> "OPEN", quality |-> h.signal.quality,
                 aiScore |-> h.score, by |-> i]
     IN  IF SchemaAccepts(doc)
           THEN /\ signalStore' = Append(signalStore, doc)
                /\ handlers' = [handlers EXCEPT ![i].pc = "notify"]
           ELSE /\ signalStore' = signalStore
                /\ handlers' = [handlers EXCEPT ![i] = Finished(@, "createFailed")]
  /\ UNCHANGED <<now, signalCooldowns, notified, coordRestarts,
                 stratVars, monVars, poolVars>>

\* telegramService.sendSignal answers; the cooldown is recorded with
\* Date.now() and the handler returns.
NotifyReturns(i) ==
  /\ handlers[i].pc = "notify"
  /\ notified' = Append(notified, handlers[i].signal)
  /\ signalCooldowns' = [signalCooldowns EXCEPT ![handlers[i].signal.symbol] = now]
  /\ handlers' = [handlers EXCEPT
       ![i] = Finished([@ EXCEPT !.cooldownSet = TRUE], "sent")]
  /\ UNCHANGED <<now, signalStore, coordRestarts, stratVars, monVars,
                 poolVars>>

\* The coordinator process is restarted: the static signalCooldowns map is
\* empty again and the handlers in flight are gone; the store is kept.
CoordinatorRestart ==
  /\ coordRestarts < MaxCoordRestarts
  /\ coordRestarts' = coordRestarts + 1
  /\ signalCooldowns' = [s \in Symbols |-> 0]
  /\ handlers' = [i \in DOMAIN handlers |->
       IF handlers[i].pc = "done" THEN handlers[i]
       ELSE [Finished(handlers[i], "lost") EXCEPT !.pc = "lost"]]
  /\ UNCHANGED <<now, signalStore, notified, stratVars, monVars, poolVars>>

NextCoord ==
  \/ Tick
  \/ ReceiveNewSignal
  \/ \E i \in DOMAIN handlers : LookupReturns(i)
  \/ \E i \in DOMAIN handlers : ScoreReturns(i)
  \/ \E i \in DOMAIN handlers : CreateReturns(i)
  \/ \E i \in DOMAIN handlers : NotifyReturns(i)
  \/ CoordinatorRestart

\* The coordinator with the scoring provider spelled out, in one process
\* lifetime.
NextCoordAI ==
  \/ Tick
  \/ ReceiveNewSignal
  \/ \E i \in DOMAIN handlers : LookupReturns(i)
  \/ \E i \in DOMAIN handlers : ScoreSignalReturns(i)
  \/ \E i \in DOMAIN handlers : CreateReturns(i)
  \/ \E i \in DOMAIN handlers : NotifyReturns(i)

\* The Signals a handler persisted.
PersistedBy(i) == {d \in DOMAIN signalStore : signalStore[d].by = i}

\* A handler that has not returned.
InFlight(h) == h.pc \notin {"done", "lost"}

\* C24: the coordinator begins to handle a NEW_SIGNAL message only when the
\* handlers of all earlier messages have returned, so that at any time at
\* most one handleNewSignal is between its cooldown check and its end.
C24_OneMessageAtATime ==
  \A i, j \in DOMAIN handlers :
    (i < j /\ InFlight(handlers[j])) => ~InFlight(handlers[i])

\* C1: no two persisted Signals of one instrument have timestamps less than
\* the cooldown duration apart.
C1_CooldownBetweenSignals ==
  \A i, j \in DOMAIN signalStore :
    (i < j /\ signalStore[i].symbol = signalStore[j].symbol) =>
      \/ signalStore[j].timestamp - signalStore[i].timestamp >= COOLDOWN_DURATION
      \/ signalStore[i].timestamp - signalStore[j].timestamp >= COOLDOWN_DURATION

\* C7: every candidate, of either tier, that passed the cooldown check and
\* was scored at or above the threshold has, once its handler has returned,
\* exactly one persisted Signal, OPEN and of the candidate's tier, and the
\* cooldown entry of its instrument was set.
C7_AcceptedCandidatePersisted ==
  \A i \in DOMAIN handlers :
    (handlers[i].pc = "done" /\ handlers[i].score >= AcceptScore) =>
      /\ Cardinality({d \in DOMAIN signalStore : signalStore[d].by = i}) = 1
      /\ \A d \in DOMAIN signalStore : signalStore[d].by = i =>
           /\ signalStore[d].status = "OPEN"
           /\ signalStore[d].quality = handlers[i].signal.quality
      /\ handlers[i].cooldownSet

\* C8: a candidate whose instrument has a persisted Signal less than the
\* cooldown duration old when the store answers the lookup is suppressed:
\* its handler ends there, nothing is persisted, scored or notified,
\* whatever the in-memory map holds.
C8_StoreCooldownSuppresses ==
  [][\A i \in DOMAIN handlers :
       (/\ handlers[i].pc = "lookup"
        /\ handlers'[i].pc # "lookup"
        /\ \E d \in DOMAIN signalStore :
             /\ signalStore[d].symbol = handlers[i].signal.symbol
             /\ handlers[i].now0 - signalStore[d].timestamp < COOLDOWN_DURATION)
       => /\ handlers'[i].pc \in {"done", "lost"}
          /\ handlers'[i].score = 0
          /\ signalStore' = signalStore
          /\ notified' = notified]_vars

\* A candidate was suppressed on the store's answer alone, the in-memory map
\* having no entry for its instrument after a coordinator restart.
C8_Witness ==
  \E i \in DOMAIN handlers :
    /\ handlers[i].outcome = "cooldown"
    /\ handlers[i].dbOnly
    /\ handlers[i].epoch > 0

\* C20: a candidate the provider gave no score for (no API key, or every
\* model erred or answered unparsably) is scored FALLBACK_SCORE, is never
\* discarded, and its handler ends as the handler of a candidate of the same
\* tier that the provider scored FALLBACK_SCORE: the same outcome, the same
\* cooldown entry, as many persisted Signals with the same aiScore.
C20_FallbackScoreProceeds ==
  \A i \in DOMAIN handlers :
    handlers[i].fallback =>
      /\ handlers[i].score = FALLBACK_SCORE
      /\ handlers[i].pc \in {"create", "notify", "done"}
      /\ handlers[i].outcome \in {"none", "sent", "createFailed"}
      /\ \A d \in PersistedBy(i) : signalStore[d].aiScore = FALLBACK_SCORE
      /\ \A j \in DOMAIN handlers :
           (/\ ~handlers[j].fallback
            /\ handlers[j].score = FALLBACK_SCORE
            /\ handlers[j].signal.quality = handlers[i].signal.quality
            /\ handlers[i].pc = "done" /\ handlers[j].pc = "done")
           => /\ handlers[j].outcome = handlers[i].outcome
              /\ handlers[j].cooldownSet = handlers[i].cooldownSet
              /\ Cardinality(PersistedBy(j)) = Cardinality(PersistedBy(i))
              /\ \A d \in PersistedBy(j) : signalStore[d].aiScore = FALLBACK_SCORE

\* A candidate scored by the fallback and one the provider scored
\* FALLBACK_SCORE have both been persisted and notified.
C20_Witness ==
  \E i, j \in DOMAIN handlers :
    /\ handlers[i].fallback /\ ~handlers[j].fallback
    /\ handlers[j].score = FALLBACK_SCORE
    /\ handlers[i].outcome = "sent" /\ handlers[j].outcome = "sent"
    /\ Cardinality(PersistedBy(i)) = 1 /\ Cardinality(PersistedBy(j)) = 1
    /\ Len(notified) = 2

(***************************************************************************)
(*                        THE SIGNAL MONITOR                               *)
(***************************************************************************)

\* The Signal documents the monitor is run on, by _id, and their instruments.
SignalIds == {1, 2}
SymbolOf(id) == IF id = 1 THEN "BTCUSDT" ELSE "ETHUSDT"
\* The closes the 1m candle of an instrument takes.
Prices == {94, 95, 100, 105, 110}

\* A Signal as handleNewSignal persists it for a candidate of checkTier
\* (entry 100, ATR 2.5: stop 5 behind, targets 9 -> 5 and 10 ahead are
\* rounded to the price grid), with or without the optional takeProfits.
\* A flat Signal is the candidate of an ATR of 0: every level is the entry.
NewSignalDoc(id, direction, hasTPs, flat) ==
  [symbol |-> SymbolOf(id), direction |-> direction, entryPrice |-> 100,
   stopLoss |-> IF flat THEN 100 ELSE IF direction = "LONG" THEN 95 ELSE 105,
   hasTPs |-> hasTPs,
   tp1 |-> IF flat THEN 100 ELSE IF direction = "LONG" THEN 105 ELSE 95,
   tp2 |-> IF flat THEN 100 ELSE IF direction = "LONG" THEN 110 ELSE 90,
   status |-> "OPEN", exitPrice |-> 0, exitReason |-> "none", pnl |-> 0]

Terminal == {"HIT_TP2", "HIT_SL", "EARLY_EXIT", "CLOSED_EOD"}

\* RiskRewardService.hasHitSL
hasHitSL(current, stopLoss, direction) ==
  IF direction = "LONG" THEN current <= stopLoss ELSE current >= stopLoss

\* RiskRewardService.hasHitTP
hasHitTP(current, takeProfit, direction) ==
  IF direction = "LONG" THEN current >= takeProfit ELSE current <= takeProfit

\* PnlService.calculatePnL
calculatePnLNoDirection(entry, exit, direction) == exit - entry
calculatePnL(entry, exit, direction) ==
  IF direction = "LONG" THEN exit - entry ELSE entry - exit

\* PnlService.calculatePnLPercentage
calculatePnLPercentage(entry, exit, direction) ==
  IF entry = 0 THEN 0
  ELSE (calculatePnL(entry, exit, direction) * 100) \div entry

\* monitorOpenSignals' query: find({status: 'OPEN'})
OpenFilterAll(sig) == TRUE
OpenFilter(sig) == sig.status = "OPEN"

\* The ids of a set as the list find returns them (by _id).
RECURSIVE AsList(_)
AsList(ids) ==
  IF ids = {} THEN <<>>
  ELSE LET m == CHOOSE x \in ids : \A y \in ids : x <= y
       IN  <<m>> \o AsList(ids \ {m})

\* checkSignalStatus: the status the price puts the Signal in, "none" when
\* no level is hit.  TP1, then TP2, then the stop-loss.
StatusHitDefaultsToStop(sig, currentPrice) ==
  IF sig.hasTPs /\ hasHitTP(currentPrice, sig.tp1, sig.direction) THEN "HIT_TP1"
  ELSE IF sig.hasTPs /\ hasHitTP(currentPrice, sig.tp2, sig.direction) THEN "HIT_TP2"
  ELSE "HIT_SL"
StatusHitStopFirst(sig, currentPrice) ==
  IF hasHitSL(currentPrice, sig.stopLoss, sig.direction) THEN "HIT_SL"
  ELSE IF sig.hasTPs /\ hasHitTP(currentPrice, sig.tp2, sig.direction) THEN "HIT_TP2"
  ELSE IF sig.hasTPs /\ hasHitTP(currentPrice, sig.tp1, sig.direction) THEN "HIT_TP1"
  ELSE "none"
StatusHit(sig, currentPrice) ==
  IF sig.hasTPs /\ hasHitTP(currentPrice, sig.tp1, sig.direction) THEN "HIT_TP1"
  ELSE IF sig.hasTPs /\ hasHitTP(currentPrice, sig.tp2, sig.direction) THEN "HIT_TP2"
  ELSE IF hasHitSL(currentPrice, sig.stopLoss, sig.direction) THEN "HIT_SL"
  ELSE "none"

ExitReason(status) ==
  IF status = "HIT_TP1" THEN "TP1 reached successfully"
  ELSE IF status = "HIT_TP2" THEN "TP2 (final target) reached successfully"
  ELSE "Stop loss triggered"

\* updateSignalStatus: the document after
\* updateOne({_id}, {$set: {status, exitPrice, exitReason, pnl}}).
updateSignalStatus(sig, newStatus, exitPrice) ==
  [sig EXCEPT !.status = newStatus, !.exitPrice = exitPrice,
              !.exitReason = ExitReason(newStatus),
              !.pnl = calculatePnLPercentage(sig.entryPrice, exitPrice,
                                             sig.direction)]

\* The update updateSignalStatus returns for the notification.
StatusUpdateOf(id, sig, newStatus, exitPrice) ==
  [id |-> id, status |-> newStatus, exitPrice |-> exitPrice,
   pnlPercent |-> calculatePnLPercentage(sig.entryPrice, exitPrice, sig.direction),
   pnlAmount |-> calculatePnL(sig.entryPrice, exitPrice, sig.direction)]

\* No second monitorPositions call is in flight; runs counts those started.
NoOverlap(runs) ==
  [pc |-> "idle", openSignals |-> <<>>, statusUpdates |-> <<>>, runs |-> runs]

\* monitorPositions is not in its risk analysis.
NoRiskScan ==
  [pc |-> "idle", openSignals |-> <<>>, transitioned |-> {}, warned |-> {}]

InitMonitor ==
  /\ mSignals = <<>>
  /\ price = [sym \in Symbols |-> 100]
  /\ mPc = "idle"
  /\ openSignals = <<>>
  /\ statusUpdates = <<>>
  /\ posted = <<>>
  /\ writes = [id \in SignalIds |-> 0]
  /\ cleanScans = 0
  /\ scanClean = FALSE
  /\ openAtMove = {}
  /\ eodSummaries = <<>>
  /\ riskNow = 1
  /\ warningsSent = [sym \in Symbols |-> 0]
  /\ warnings = <<>>
  /\ monitorRestarts = 0
  /\ riskScan = NoRiskScan
  /\ failedWrites = [id \in SignalIds |-> 0]
  /\ overlap = NoOverlap(0)
  /\ failedFetches = [id \in SignalIds |-> 0]

\* The coordinator persists a new Signal (SignalModel.create, status OPEN).
SignalOpened ==
  /\ \E id \in SignalIds \ DOMAIN mSignals,
        direction \in {"LONG", "SHORT"}, hasTPs, flat \in BOOLEAN :
       /\ flat => hasTPs
       /\ mSignals' = [k \in DOMAIN mSignals \cup {id} |->
                         IF k = id THEN NewSignalDoc(id, direction, hasTPs, flat)
                         ELSE mSignals[k]]
  /\ UNCHANGED <<price, mPc, openSignals, statusUpdates, posted, writes,
                 cleanScans, scanClean, openAtMove, eodSummaries,
                 riskVars, failedWrites, failedFetches, overlap, stratVars, coordVars, poolVars>>

\* The market moves: the 1m close of an instrument changes.
PriceMove ==
  /\ \E sym \in Symbols, p \in Prices :
       /\ p # price[sym]
       /\ price' = [price EXCEPT ![sym] = p]
  /\ cleanScans' = 0
  /\ scanClean' = FALSE
  /\ openAtMove' = {id \in DOMAIN mSignals : mSignals[id].status = "OPEN"}
  /\ UNCHANGED <<mSignals, mPc, openSignals, statusUpdates, posted, writes,
                 eodSummaries, riskVars, failedWrites, failedFetches, overlap, stratVars,
                 coordVars, poolVars>>

\* monitorPositions calls monitorOpenSignals, which reads the open Signals.
ScanStart ==
  /\ mPc = "idle"
  /\ mPc' = "scanning"
  /\ openSignals' = AsList({id \in DOMAIN mSignals : OpenFilter(mSignals[id])})
  /\ statusUpdates' = <<>>
  /\ scanClean' = TRUE
  /\ UNCHANGED <<mSignals, price, posted, writes, cleanScans, openAtMove,
                 eodSummaries, riskVars, failedWrites, failedFetches, overlap, stratVars,
                 coordVars, poolVars>>

\* monitorOpenSignals' loop body: checkSignalStatus for the next Signal of
\* the list, with the price fetched now, and updateSignalStatus when a level
\* is hit.
CheckSignal ==
  /\ mPc = "scanning"
  /\ openSignals # <<>>
  /\ LET id == Head(openSignals)
         sig == mSignals[id]
         currentPrice == price[sig.symbol]
         newStatus == StatusHit(sig, currentPrice)
     IN  IF newStatus = "none"
           THEN UNCHANGED <<mSignals, writes, statusUpdates>>
           ELSE /\ mSignals' = [mSignals EXCEPT
                      ![id] = updateSignalStatus(sig, newStatus, currentPrice)]
                /\ writes' = [writes EXCEPT ![id] = @ + 1]
                /\ statusUpdates' = Append(statusUpdates,
                      StatusUpdateOf(id, sig, newStatus, currentPrice))
  /\ openSignals' = Tail(openSignals)
  /\ UNCHANGED <<price, mPc, posted, cleanScans, scanClean, openAtMove,
                 eodSummaries, riskVars, failedWrites, failedFetches, overlap, stratVars,
                 coordVars, poolVars>>

\* monitorOpenSignals returns and monitorPositions posts one STATUS_UPDATE
\* per update.
ScanFinish ==
  /\ mPc = "scanning"
  /\ openSignals = <<>>
  /\ mPc' = "idle"
  /\ posted' = posted \o statusUpdates
  /\ statusUpdates' = <<>>
  /\ cleanScans' = IF ~scanClean THEN cleanScans
                   ELSE IF cleanScans < 2 THEN cleanScans + 1 ELSE 2
  /\ UNCHANGED <<mSignals, price, openSignals, writes, scanClean, openAtMove,
                 eodSummaries, riskVars, failedWrites, failedFetches, overlap, stratVars,
                 coordVars, poolVars>>

NextMonitor ==
  SignalOpened \/ PriceMove \/ ScanStart \/ CheckSignal \/ ScanFinish

\* Overlapping monitorPositions calls the model follows.
MaxOverlaps == 1

\* The 10-second timer of startMonitoring fires while the previous
\* monitorPositions is still awaiting a fetch or a write: a second call
\* starts and monitorOpenSignals reads the open Signals.
OverlapScanStart ==
  /\ mPc = "scanning"
  /\ overlap.pc = "idle"
  /\ overlap.runs < MaxOverlaps
  /\ overlap' = [pc |-> "scanning",
                 openSignals |->
                   AsList({id \in DOMAIN mSignals : OpenFilter(mSignals[id])}),
                 statusUpdates |-> <<>>,
                 runs |-> overlap.runs + 1]
  /\ UNCHANGED <<mSignals, price, mPc, openSignals, statusUpdates, posted,
                 writes, cleanScans, scanClean, openAtMove, eodSummaries,
                 riskVars, failedWrites, failedFetches, stratVars, coordVars, poolVars>>

\* The loop body of the second call: checkSignalStatus for the next Signal
\* of its list, with the price fetched now, and updateSignalStatus (updateOne
\* by _id) when a level is hit.
OverlapCheckSignal ==
  /\ overlap.pc = "scanning"
  /\ overlap.openSignals # <<>>
  /\ LET id == Head(overlap.openSignals)
         sig == mSignals[id]
         currentPrice == price[sig.symbol]
         newStatus == StatusHit(sig, currentPrice)
     IN  IF newStatus = "none"
           THEN /\ UNCHANGED <<mSignals, writes>>
                /\ overlap' = [overlap EXCEPT !.openSignals = Tail(@)]
           ELSE /\ mSignals' = [mSignals EXCEPT
                      ![id] = updateSignalStatus(sig, newStatus, currentPrice)]
                /\ writes' = [writes EXCEPT ![id] = @ + 1]
                /\ overlap' = [overlap EXCEPT
                      !.openSignals = Tail(@),
                      !.statusUpdates = Append(@,
                         StatusUpdateOf(id, sig, newStatus, currentPrice))]
  /\ UNCHANGED <<price, mPc, openSignals, statusUpdates, posted, cleanScans,
                 scanClean, openAtMove, eodSummaries, riskVars, failedWrites, failedFetches,
                 stratVars, coordVars, poolVars>>

\* The second call's monitorOpenSignals returns and monitorPositions posts
\* one STATUS_UPDATE per update.
OverlapScanFinish ==
  /\ overlap.pc = "scanning"
  /\ overlap.openSignals = <<>>
  /\ posted' = posted \o overlap.statusUpdates
  /\ overlap' = NoOverlap(overlap.runs)
  /\ UNCHANGED <<mSignals, price, mPc, openSignals, statusUpdates, writes,
                 cleanScans, scanClean, openAtMove, eodSummaries, riskVars,
                 failedWrites, failedFetches, stratVars, coordVars, poolVars>>

\* The first Signal of the store is persisted.
FirstSignalOpened == DOMAIN mSignals = {} /\ SignalOpened

\* The monitor of a store with one Signal, with a timer that does not wait
\* for the running call.
NextMonitorOverlap ==
  \/ FirstSignalOpened
  \/ PriceMove
  \/ ScanStart
  \/ CheckSignal
  \/ ScanFinish
  \/ OverlapScanStart
  \/ OverlapCheckSignal
  \/ OverlapScanFinish

\* Price fetches without a candle the model follows.
MaxFailedFetches == 1

\* monitorOpenSignals' loop body when the price cannot be fetched:
\* fetchKlines returns no candle, or throws and the catch of
\* checkSignalStatus logs; either way checkSignalStatus returns null.
CheckSignalFetchFails ==
  /\ mPc = "scanning"
  /\ openSignals # <<>>
  /\ failedFetches[1] + failedFetches[2] < MaxFailedFetches
  /\ failedFetches' = [failedFetches EXCEPT ![Head(openSignals)] = @ + 1]
  /\ openSignals' = Tail(openSignals)
  /\ UNCHANGED <<mSignals, price, mPc, statusUpdates, posted, writes,
                 cleanScans, scanClean, openAtMove, eodSummaries, riskVars,
                 failedWrites, overlap, stratVars, coordVars, poolVars>>

\* The monitor of a store with one Signal whose price fetch may fail.
NextMonitorQuiet ==
  \/ FirstSignalOpened
  \/ PriceMove
  \/ ScanStart
  \/ CheckSignal
  \/ CheckSignalFetchFails
  \/ ScanFinish

\* Rejected store updates the model follows.
MaxFailedWrites == 1

\* The document after an updateOne that rejects: the store keeps it as it is.
UpdateRejectedApplied(sig, newStatus, exitPrice) ==
  updateSignalStatus(sig, newStatus, exitPrice)
UpdateRejected(sig, newStatus, exitPrice) == sig

\* monitorOpenSignals' loop body when the store rejects the update: a level
\* is hit, updateSignalStatus calls updateOne, updateOne throws, and the catch
\* of checkSignalStatus logs the error and returns null, so that the loop
\* pushes no update and goes on with the next Signal.
CheckSignalUpdateFails ==
  /\ mPc = "scanning"
  /\ openSignals # <<>>
  /\ failedWrites[1] + failedWrites[2] < MaxFailedWrites
  /\ LET id == Head(openSignals)
         sig == mSignals[id]
         currentPrice == price[sig.symbol]
         newStatus == StatusHit(sig, currentPrice)
     IN  /\ newStatus # "none"
         /\ mSignals' = [mSignals EXCEPT
               ![id] = UpdateRejected(sig, newStatus, currentPrice)]
         /\ failedWrites' = [failedWrites EXCEPT ![id] = @ + 1]
  /\ openSignals' = Tail(openSignals)
  /\ UNCHANGED <<price, mPc, statusUpdates, posted, writes, cleanScans,
                 scanClean, openAtMove, eodSummaries, riskVars, overlap,
                 failedFetches, stratVars, coordVars, poolVars>>

\* The monitor with a store that may reject an update.
NextMonitorFaults == NextMonitor \/ CheckSignalUpdateFails

\* Daily summaries the model follows.
MaxEodRuns == 1

\* The end-of-day timer fires at 23:59 UTC: sendEODSummary reads the Signals
\* of the day and sends their number as the summary.
sendEODSummary ==
  /\ Len(eodSummaries) < MaxEodRuns
  /\ eodSummaries' = Append(eodSummaries, Cardinality(DOMAIN mSignals))
  /\ UNCHANGED <<mSignals, price, mPc, openSignals, statusUpdates, posted,
                 writes, cleanScans, scanClean, openAtMove,
                 riskVars, failedWrites, failedFetches, overlap, stratVars, coordVars, poolVars>>

\* The monitor together with the coordinator's end-of-day timer.
NextEod == NextMonitor \/ sendEODSummary

\* The STATUS_UPDATE messages posted for a Signal.
PostedFor(id) == Cardinality({k \in DOMAIN posted : posted[k].id = id})

\* Some level of the Signal is at or beyond the price.
LevelCrossed(sig, p) ==
  \/ sig.hasTPs /\ sig.direction = "LONG" /\ (p >= sig.tp1 \/ p >= sig.tp2)
  \/ sig.hasTPs /\ sig.direction = "SHORT" /\ (p <= sig.tp1 \/ p <= sig.tp2)
  \/ sig.direction = "LONG" /\ p <= sig.stopLoss
  \/ sig.direction = "SHORT" /\ p >= sig.stopLoss

C4_ScanIdempotent ==
  \A id \in DOMAIN mSignals :
    /\ writes[id] <= 1
    /\ PostedFor(id) <= 1
    /\ mSignals[id].status = "OPEN" => writes[id] = 0 /\ PostedFor(id) = 0
    /\ (/\ mPc = "idle"
        /\ cleanScans = 2
        /\ id \in openAtMove
        /\ LevelCrossed(mSignals[id], price[mSignals[id].symbol]))
       => writes[id] = 1 /\ PostedFor(id) = 1 /\ mSignals[id].status # "OPEN"

\* Two complete scans have run at an unchanged price over a Signal that was
\* OPEN with a level crossed.
C4_Witness ==
  \E id \in DOMAIN mSignals :
    /\ mPc = "idle"
    /\ cleanScans = 2
    /\ id \in openAtMove
    /\ LevelCrossed(mSignals[id], price[mSignals[id].symbol])
    /\ writes[id] = 1

\* C9: the check of an OPEN Signal whose price is at or beyond the stop-loss
\* and has hit no take-profit level sets, in one store update, status HIT_SL,
\* exitPrice = the current price and pnl = (exit - entry) / entry * 100 for
\* LONG, (entry - exit) / entry * 100 for SHORT; LONG entry 100, stop 95,
\* price 94 gives exit 94 and P&L -6.
C9_StopLossTransition ==
  [][\A id \in DOMAIN mSignals :
       LET sig == mSignals[id]
           p == price[sig.symbol]
           slCrossed == IF sig.direction = "LONG" THEN p <= sig.stopLoss
                        ELSE p >= sig.stopLoss
           tpHit == sig.hasTPs /\
                    IF sig.direction = "LONG" THEN p >= sig.tp1 \/ p >= sig.tp2
                    ELSE p <= sig.tp1 \/ p <= sig.tp2
           expected == IF sig.direction = "LONG"
                         THEN ((p - sig.entryPrice) * 100) \div sig.entryPrice
                         ELSE ((sig.entryPrice - p) * 100) \div sig.entryPrice
       IN  (/\ mPc = "scanning"
            /\ openSignals # <<>>
            /\ Head(openSignals) = id
            /\ openSignals' = Tail(openSignals)
            /\ sig.status = "OPEN"
            /\ slCrossed
            /\ ~tpHit)
           => /\ mSignals'[id].status = "HIT_SL"
              /\ mSignals'[id].exitPrice = p
              /\ mSignals'[id].pnl = expected
              /\ (sig.direction = "LONG" /\ p = 94) => mSignals'[id].pnl = -6
              /\ (sig.direction = "SHORT" /\ p = 110) => mSignals'[id].pnl = -10]_vars

\* The LONG Signal with entry 100 and stop 95 was stopped out at 94.
C9_Witness ==
  \E id \in DOMAIN mSignals :
    /\ mSignals[id].direction = "LONG"
    /\ mSignals[id].entryPrice = 100
    /\ mSignals[id].stopLoss = 95
    /\ mSignals[id].status = "HIT_SL"
    /\ mSignals[id].exitPrice = 94
    /\ mSignals[id].pnl = -6

\* C12: the check of an OPEN Signal tests TP1 (if defined), TP2 (if
\* defined) and the stop-loss in this order, a level being hit when the price
\* is at or beyond it; the first test that holds gives the new status, no
\* test holding leaves the Signal as it is, and a scan collects at most one
\* transition per Signal.
C12_FirstMatchWins ==
  [][\A id \in DOMAIN mSignals :
       LET sig == mSignals[id]
           p == price[sig.symbol]
           long == sig.direction = "LONG"
           tp1Hit == sig.hasTPs /\ IF long THEN p >= sig.tp1 ELSE p <= sig.tp1
           tp2Hit == sig.hasTPs /\ IF long THEN p >= sig.tp2 ELSE p <= sig.tp2
           slHit == IF long THEN p <= sig.stopLoss ELSE p >= sig.stopLoss
           expected == IF tp1Hit THEN "HIT_TP1"
                       ELSE IF tp2Hit THEN "HIT_TP2"
                       ELSE IF slHit THEN "HIT_SL" ELSE "OPEN"
       IN  /\ (/\ mPc = "scanning"
               /\ openSignals # <<>>
               /\ Head(openSignals) = id
               /\ openSignals' = Tail(openSignals)
               /\ sig.status = "OPEN")
              => /\ mSignals'[id].status = expected
                 /\ Len(statusUpdates') =
                      Len(statusUpdates) + (IF expected = "OPEN" THEN 0 ELSE 1)
           /\ Cardinality({k \in DOMAIN statusUpdates' :
                             statusUpdates'[k].id = id}) <= 1]_vars

\* A check found the first target and the stop-loss hit at once (a flat
\* Signal) and another found both targets hit: both Signals are HIT_TP1.
C12_Witness ==
  /\ \E id \in DOMAIN mSignals :
       /\ mSignals[id].hasTPs
       /\ mSignals[id].tp1 = mSignals[id].stopLoss
       /\ mSignals[id].status = "HIT_TP1"
  /\ \E id \in DOMAIN mSignals :
       /\ mSignals[id].direction = "LONG"
       /\ mSignals[id].status = "HIT_TP1"
       /\ mSignals[id].exitPrice >= mSignals[id].tp2
       /\ mSignals[id].tp2 > mSignals[id].tp1

\* C13: a Signal in status HIT_TP1 is still evaluated: after two complete
\* scans at an unchanged price no Signal is HIT_TP1 with the price at or
\* beyond its TP2 level or at or beyond its stop-loss (it has moved on to
\* HIT_TP2 or HIT_SL).
C13_Tp1ContinuesToTp2 ==
  \A id \in DOMAIN mSignals :
    LET sig == mSignals[id]
        p == price[sig.symbol]
        long == sig.direction = "LONG"
    IN  (mPc = "idle" /\ cleanScans = 2 /\ sig.status = "HIT_TP1")
        => /\ ~(IF long THEN p >= sig.tp2 ELSE p <= sig.tp2)
           /\ ~(IF long THEN p <= sig.stopLoss ELSE p >= sig.stopLoss)

\* C14: the end-of-day run sets every Signal that is still OPEN to
\* CLOSED_EOD and changes no Signal that is in a terminal status.
C14_EodForceCloses ==
  [][Len(eodSummaries') > Len(eodSummaries) =>
       \A id \in DOMAIN mSignals :
         /\ mSignals[id].status = "OPEN" => mSignals'[id].status = "CLOSED_EOD"
         /\ mSignals[id].status \in Terminal => mSignals'[id] = mSignals[id]]_vars

\* C27: the check of an open Signal for which no take-profit and no
\* stop-loss condition holds, or whose price fetch fails, leaves the stored
\* document (status, exitPrice, exitReason, pnl) as it is, writes nothing
\* and collects no update; a Signal that is OPEN has no STATUS_UPDATE.
C27_NoMatchLeavesSignal ==
  [][\A id \in DOMAIN mSignals :
       LET sig == mSignals[id]
           p == price[sig.symbol]
           checked == /\ mPc = "scanning"
                      /\ openSignals # <<>> /\ Head(openSignals) = id
                      /\ openSignals' = Tail(openSignals)
           noMatch == /\ ~(sig.hasTPs /\ hasHitTP(p, sig.tp1, sig.direction))
                      /\ ~(sig.hasTPs /\ hasHitTP(p, sig.tp2, sig.direction))
                      /\ ~hasHitSL(p, sig.stopLoss, sig.direction)
           fetchFailed == failedFetches'[id] > failedFetches[id]
       IN  /\ (checked /\ (noMatch \/ fetchFailed)) =>
                /\ mSignals'[id].status = sig.status
                /\ mSignals'[id].exitPrice = sig.exitPrice
                /\ mSignals'[id].exitReason = sig.exitReason
                /\ mSignals'[id].pnl = sig.pnl
                /\ writes'[id] = writes[id]
                /\ statusUpdates' = statusUpdates
                /\ posted' = posted
           /\ mSignals'[id].status = "OPEN" =>
                /\ PostedFor(id)' = 0
                /\ \A k \in DOMAIN statusUpdates' :
                     statusUpdates'[k].id # id]_vars

\* A scan has ended in which the price of a Signal with a level crossed
\* could not be fetched: the Signal is OPEN, unwritten and unreported.
C27_Witness ==
  \E id \in DOMAIN mSignals :
    /\ failedFetches[id] > 0
    /\ LevelCrossed(mSignals[id], price[mSignals[id].symbol])
    /\ mSignals[id].status = "OPEN"
    /\ mSignals[id].exitReason = "none"
    /\ writes[id] = 0
    /\ PostedFor(id) = 0
    /\ mPc = "idle"
    /\ cleanScans >= 1

\* C23: every Signal has at most one persisted transition and at most one
\* STATUS_UPDATE, also when two monitorPositions calls overlap.
C23_OneTransitionUnderOverlap ==
  \A id \in DOMAIN mSignals :
    writes[id] <= 1 /\ PostedFor(id) <= 1

\* The Signals of a list.
InList(list) == {list[k] : k \in DOMAIN list}

\* C18: a rejected store update of a lifecycle transition emits no
\* status-change event and leaves the Signal OPEN (an OPEN Signal has no
\* STATUS_UPDATE posted or collected); the next scan reads the Signal again,
\* and its check performs the transition when the price still crosses the
\* level: the status is written and one update is collected.
C18_FailedUpdateRetried ==
  [][/\ \A id \in DOMAIN mSignals :
          /\ failedWrites'[id] > failedWrites[id] =>
                /\ mSignals'[id] = mSignals[id]
                /\ mSignals'[id].status = "OPEN"
                /\ statusUpdates' = statusUpdates
                /\ posted' = posted
          /\ mSignals'[id].status = "OPEN" =>
                /\ PostedFor(id)' = 0
                /\ \A k \in DOMAIN statusUpdates' : statusUpdates'[k].id # id
          /\ (/\ failedWrites[id] > 0
              /\ mSignals[id].status = "OPEN"
              /\ mPc = "idle" /\ mPc' = "scanning") =>
                id \in InList(openSignals')
          /\ (/\ failedWrites[id] > 0
              /\ failedWrites' = failedWrites
              /\ mPc = "scanning"
              /\ openSignals # <<>> /\ Head(openSignals) = id
              /\ openSignals' = Tail(openSignals)
              /\ LevelCrossed(mSignals[id], price[mSignals[id].symbol])) =>
                /\ mSignals'[id].status =
                     StatusHit(mSignals[id], price[mSignals[id].symbol])
                /\ mSignals'[id].status # "OPEN"
                /\ writes'[id] = 1
                /\ statusUpdates' = Append(statusUpdates,
                     StatusUpdateOf(id, mSignals[id], mSignals'[id].status,
                                    price[mSignals[id].symbol]))]_vars

\* A Signal whose store update was rejected in one scan has been evaluated
\* again by a later scan, which made the transition and posted its update.
C18_Witness ==
  \E id \in DOMAIN mSignals :
    /\ failedWrites[id] > 0
    /\ mSignals[id].status # "OPEN"
    /\ writes[id] = 1
    /\ PostedFor(id) = 1
    /\ mPc = "idle"

(***************************************************************************)
(*                  THE RISK MONITOR (early-exit warnings)                 *)
(***************************************************************************)

\* RiskMonitorService.WARNING_COOLDOWN: 15 minutes, in units of 5 minutes
WARNING_COOLDOWN == 3
\* Clock steps and restarts of the monitoring worker the model follows.
MaxRiskTime == 4
MaxMonitorRestarts == 1

\* RiskRewardService.isApproachingSL with EARLY_EXIT_THRESHOLD = 0.5:
\* calculateRiskPosition(current, entry, stopLoss, direction) >= 0.5
isApproachingSL(current, entry, stopLoss, direction) ==
  LET risk == IF entry >= stopLoss THEN entry - stopLoss ELSE stopLoss - entry
      currentDistance == IF direction = "LONG" THEN entry - current
                         ELSE current - entry
  IN  IF risk = 0 THEN FALSE ELSE 2 * currentDistance >= risk

\* analyzeRisk: unrealizedPnL < -MAX_LOSS_PERCENT (1.5)
isExcessiveLoss(current, entry, direction) ==
  2 * calculatePnLPercentage(entry, current, direction) < -3

\* shouldWarnEarlyExit's test of the cooldown
CooldownOver(lastWarning, t) ==
  lastWarning = 0 \/ t - lastWarning >= WARNING_COOLDOWN

\* The monitoring worker's clock advances.
RiskTick ==
  /\ riskNow < MaxRiskTime
  /\ riskNow' = riskNow + 1
  /\ UNCHANGED <<warningsSent, warnings, monitorRestarts, riskScan,
                 mSignals, price, mPc, openSignals, statusUpdates, posted,
                 writes, cleanScans, scanClean, openAtMove, eodSummaries,
                 failedWrites, failedFetches, overlap, stratVars, coordVars, poolVars>>

\* monitorPositions' risk analysis of one open Signal: analyzeRisk with the
\* price fetched now; shouldWarnEarlyExit records the time when it allows
\* the warning, and sendEarlyExitWarning sends it.
analyzeRisk ==
  /\ \E id \in SignalIds, direction \in {"LONG", "SHORT"},
        currentPrice \in Prices :
       LET signal == NewSignalDoc(id, direction, TRUE, FALSE)
           inZone ==
             \/ isApproachingSL(currentPrice, signal.entryPrice,
                                signal.stopLoss, signal.direction)
             \/ isExcessiveLoss(currentPrice, signal.entryPrice,
                                signal.direction)
       IN  /\ inZone
           /\ CooldownOver(warningsSent[signal.symbol], riskNow)
           /\ warningsSent' = [warningsSent EXCEPT ![signal.symbol] = riskNow]
           /\ warnings' = Append(warnings,
                                 [symbol |-> signal.symbol, at |-> riskNow])
  /\ UNCHANGED <<riskNow, monitorRestarts, riskScan,
                 mSignals, price, mPc, openSignals, statusUpdates, posted,
                 writes, cleanScans, scanClean, openAtMove, eodSummaries,
                 failedWrites, failedFetches, overlap, stratVars, coordVars, poolVars>>

\* The monitoring worker crashes and the pool starts it again: the new
\* thread loads RiskMonitorService with an empty warningsSent, and the
\* monitorPositions calls that were in flight are gone with their locals.
MonitorWorkerRestart ==
  /\ monitorRestarts < MaxMonitorRestarts
  /\ monitorRestarts' = monitorRestarts + 1
  /\ warningsSent' = [sym \in Symbols |-> 0]
  /\ mPc' = "idle"
  /\ openSignals' = <<>>
  /\ statusUpdates' = <<>>
  /\ overlap' = NoOverlap(overlap.runs)
  /\ scanClean' = FALSE
  /\ riskScan' = NoRiskScan
  /\ UNCHANGED <<riskNow, warnings,
                 mSignals, price, posted,
                 writes, cleanScans, openAtMove, eodSummaries,
                 failedWrites, failedFetches, stratVars, coordVars, poolVars>>

\* The monitor of a store with one Signal, in a worker that may crash and be
\* started again.
NextMonitorCrash ==
  \/ FirstSignalOpened
  \/ PriceMove
  \/ ScanStart
  \/ CheckSignal
  \/ ScanFinish
  \/ MonitorWorkerRestart

\* C25: whenever no monitorPositions call is in flight, every Signal has as
\* many STATUS_UPDATE messages posted to the coordinator, each of which
\* handleStatusUpdate turns into one notification, as it has persisted
\* transitions, also after a crash of the monitoring worker.
C25_TransitionNotifiedOnce ==
  (mPc = "idle" /\ overlap.pc = "idle") =>
    \A id \in DOMAIN mSignals : PostedFor(id) = writes[id]

NextRisk == RiskTick \/ analyzeRisk \/ MonitorWorkerRestart

\* C17: any two early-exit warnings sent for one instrument are at least
\* WARNING_COOLDOWN apart, also across a restart of the monitoring worker.
C17_WarningsSpaced ==
  \A i, j \in DOMAIN warnings :
    (i < j /\ warnings[i].symbol = warnings[j].symbol)
    => warnings[j].at - warnings[i].at >= WARNING_COOLDOWN

(***************************************************************************)
(*                          THE WORKER POOL                                *)
(***************************************************************************)

\* The symbol groups the model follows (symbolGroups has four; the pool
\* treats every group alike).
NumSymbolGroups == 3
\* the id createMonitoringWorker uses
MONITORING_ID == 999
\* config.maxRestarts
maxRestarts == 3
\* Abnormal exits of one worker the model follows (the budget stops a worker
\* at maxRestarts + 1).
MaxExits == 5

SymbolWorkerIds == 0 .. (NumSymbolGroups - 1)
WorkerIds == SymbolWorkerIds \cup {MONITORING_ID}
ExitCodes == {0, 1}

WorkerType(id) == IF id = MONITORING_ID THEN "MONITORING" ELSE "SYMBOL"

\* WorkerPoolManager.symbolGroups
symbolGroups ==
  << <<"BTCUSDT", "ETHUSDT", "SOLUSDT", "BNBUSDT", "XRPUSDT">>,
     <<"DOGEUSDT", "ADAUSDT", "AVAXUSDT", "TRXUSDT", "LINKUSDT">>,
     <<"DOTUSDT", "MATICUSDT", "LTCUSDT", "SHIBUSDT", "PEPEUSDT">>,
     <<"SUIUSDT", "ARBUSDT", "OPUSDT", "APTUSDT", "INJUSDT">> >>
\* StrategyService.SYMBOLS: the configured instruments
SYMBOLS ==
  <<"BTCUSDT", "ETHUSDT", "SOLUSDT", "BNBUSDT", "XRPUSDT",
    "DOGEUSDT", "ADAUSDT", "AVAXUSDT", "TRXUSDT", "LINKUSDT",
    "DOTUSDT", "MATICUSDT", "LTCUSDT", "SHIBUSDT", "PEPEUSDT",
    "SUIUSDT", "ARBUSDT", "OPUSDT", "APTUSDT", "INJUSDT">>
\* The symbols argument of the worker's creation: symbolGroups[i] for
\* createSymbolWorker(i, ...), none for createMonitoringWorker.
SymbolsOfFirstGroup(id) == symbolGroups[1]
SymbolsOf(id) == IF id = MONITORING_ID THEN <<>> ELSE symbolGroups[id + 1]

\* The record createSymbolWorker / createMonitoringWorker put in the map.
NewWorkerInfo(id) ==
  [id |-> id, type |-> WorkerType(id), symbols |-> SymbolsOf(id),
   restartCount |-> 0]

\* handleWorkerCrash's budget test
BudgetExhaustedLate(restartCount) == restartCount > maxRestarts
BudgetExhausted(restartCount) == restartCount >= maxRestarts

\* handleWorkerCrash's `newWorkerInfo.restartCount = workerInfo.restartCount
\* + 1`, workerInfo being the record read when the worker exited
NextRestartCountReset(restartCount) == 1
NextRestartCount(restartCount) == restartCount + 1

\* workers.delete(id)
MapDeleteClears(map, id) == <<>>
MapDelete(map, id) == [k \in DOMAIN map \ {id} |-> map[k]]
\* workers.set(id, info)
MapSet(map, id, info) ==
  [k \in DOMAIN map \cup {id} |-> IF k = id THEN info ELSE map[k]]

\* The kinds of worker-messages.interface.ts, STATUS_UPDATE, and a kind the
\* coordinator does not know.
ProtocolKinds == {"NEW_SIGNAL", "RISK_WARNING", "MONITORING_STATUS",
                  "WORKER_READY", "ERROR", "TELEGRAM_FORWARD", "HEARTBEAT"}
MessageKinds == ProtocolKinds \cup {"STATUS_UPDATE", "UNKNOWN_KIND"}
NoMessage == [from |-> MONITORING_ID, type |-> "none", hasData |-> FALSE,
              threw |-> FALSE]

\* shutdown() has not been called a second time.
NotCalled == [pc |-> "none", calledIn |-> "none"]

InitPool ==
  /\ workers = <<>>
  /\ threads = [id \in WorkerIds |-> FALSE]
  /\ isShuttingDown = FALSE
  /\ healthCheckInterval = FALSE
  /\ initPc = 0
  /\ crashing = {}
  /\ shutdownPc = "none"
  /\ terminating = {}
  /\ exits = [id \in WorkerIds |-> 0]
  /\ restarts = [id \in WorkerIds |-> 0]
  /\ removed = {}
  /\ lastHealthCheck = [id \in WorkerIds |-> 0]
  /\ poolNow = 0
  /\ received = NoMessage
  /\ emitted = <<>>
  /\ handled = 0
  /\ healthReports = <<>>
  /\ secondShutdown = NotCalled
  /\ cleanExits = {}

\* initialize(): the next createSymbolWorker of the staggered loop.
InitializeSymbolWorker ==
  /\ initPc < NumSymbolGroups
  /\ workers' = MapSet(workers, initPc, NewWorkerInfo(initPc))
  /\ threads' = [threads EXCEPT ![initPc] = TRUE]
  /\ initPc' = initPc + 1
  /\ lastHealthCheck' = [lastHealthCheck EXCEPT ![initPc] = poolNow]
  /\ UNCHANGED <<isShuttingDown, healthCheckInterval, crashing, shutdownPc,
                 terminating, exits, restarts, removed,
                 msgVars, stratVars, coordVars, monVars>>

\* initialize(): createMonitoringWorker and startHealthChecks.
InitializeMonitoringWorker ==
  /\ initPc = NumSymbolGroups
  /\ workers' = MapSet(workers, MONITORING_ID, NewWorkerInfo(MONITORING_ID))
  /\ threads' = [threads EXCEPT ![MONITORING_ID] = TRUE]
  /\ healthCheckInterval' = TRUE
  /\ initPc' = initPc + 1
  /\ lastHealthCheck' = [lastHealthCheck EXCEPT ![MONITORING_ID] = poolNow]
  /\ UNCHANGED <<isShuttingDown, crashing, shutdownPc, terminating, exits,
                 restarts, removed, msgVars, stratVars, coordVars, monVars>>

\* A worker thread ends with some exit code and the 'exit' handler of
\* setupWorkerHandlers runs: for a non-zero code while the pool is not
\* shutting down, handleWorkerCrash up to its await of the restart delay.
WorkerExit ==
  \E id \in WorkerIds, code \in ExitCodes :
    /\ shutdownPc \in {"none", "terminating"}
    /\ threads[id]
    /\ exits[id] < MaxExits
    /\ id \in terminating => code # 0
    /\ threads' = [threads EXCEPT ![id] = FALSE]
    /\ terminating' = terminating \ {id}
    /\ IF code # 0 /\ ~isShuttingDown
         THEN /\ exits' = [exits EXCEPT ![id] = @ + 1]
              /\ IF id \notin DOMAIN workers
                   THEN UNCHANGED <<workers, crashing, removed>>
                   ELSE IF BudgetExhausted(workers[id].restartCount)
                     THEN /\ workers' = MapDelete(workers, id)
                          /\ removed' = removed \cup {id}
                          /\ UNCHANGED crashing
                     ELSE /\ crashing' = crashing \cup
                               {[id |-> id,
                                 restartCount |-> workers[id].restartCount]}
                          /\ UNCHANGED <<workers, removed>>
         ELSE UNCHANGED <<workers, crashing, removed, exits>>
    /\ UNCHANGED <<isShuttingDown, healthCheckInterval, initPc, shutdownPc,
                   restarts, lastHealthCheck, msgVars, stratVars, coordVars, monVars>>

\* handleWorkerCrash after the restart delay: the old record is deleted, the
\* worker is created again and its record gets the old count plus one.
RestartAfterDelay ==
  \E c \in crashing :
    /\ shutdownPc \in {"none", "terminating"}
    /\ crashing' = crashing \ {c}
    /\ workers' = MapSet(MapDelete(workers, c.id), c.id,
                     [NewWorkerInfo(c.id) EXCEPT
                        !.restartCount = NextRestartCount(c.restartCount)])
    /\ threads' = [threads EXCEPT ![c.id] = TRUE]
    /\ restarts' = [restarts EXCEPT ![c.id] = @ + 1]
    /\ lastHealthCheck' = [lastHealthCheck EXCEPT ![c.id] = poolNow]
    /\ UNCHANGED <<isShuttingDown, healthCheckInterval, initPc, shutdownPc,
                   terminating, exits, removed, msgVars, stratVars, coordVars, monVars>>

\* shutdown() up to its await: the flag is set, the health-check timer is
\* cleared and terminate() is called on the worker of every record.  The
\* signal handlers that call it are installed when initialize() is through.
ShutdownBegin ==
  /\ shutdownPc = "none"
  /\ initPc = NumSymbolGroups + 1
  /\ isShuttingDown' = TRUE
  /\ healthCheckInterval' = FALSE
  /\ terminating' = {id \in DOMAIN workers : threads[id]}
  /\ shutdownPc' = "terminating"
  /\ UNCHANGED <<workers, threads, initPc, crashing, exits, restarts, removed,
                 lastHealthCheck, msgVars, stratVars, coordVars, monVars>>

\* shutdown() after all terminations have resolved: workers.clear().
ShutdownFinish ==
  /\ shutdownPc = "terminating"
  /\ terminating = {}
  /\ workers' = <<>>
  /\ shutdownPc' = "done"
  /\ UNCHANGED <<threads, isShuttingDown, healthCheckInterval, initPc,
                 crashing, terminating, exits, restarts, removed,
                 lastHealthCheck, msgVars, stratVars, coordVars, monVars>>

\* The shutdown handler after shutdown() has returned: process.exit(0), which
\* ends every thread of the process; a restart delay still pending never
\* ends.
ProcessExit ==
  /\ shutdownPc = "done"
  /\ shutdownPc' = "exited"
  /\ threads' = [id \in WorkerIds |-> FALSE]
  /\ UNCHANGED <<workers, isShuttingDown, healthCheckInterval, initPc,
                 crashing, terminating, exits, restarts, removed,
                 lastHealthCheck, msgVars, stratVars, coordVars, monVars>>

NextPool ==
  \/ InitializeSymbolWorker
  \/ InitializeMonitoringWorker
  \/ WorkerExit
  \/ RestartAfterDelay
  \/ ShutdownBegin
  \/ ShutdownFinish
  \/ ProcessExit

MaxMessages == 2
MaxPoolTime == 3
\* Runs of the health check the model follows.
MaxHealthChecks == 1
\* config.healthCheckInterval (30 seconds), the unit of poolNow
configHealthCheckInterval == 1

\* handleWorkerMessage's switch: the coordinator event emitted for a kind.
EventOfUnknownAsSignal(type) ==
  IF type = "RISK_WARNING" THEN "warning" ELSE "signal"
EventOf(type) ==
  IF type = "NEW_SIGNAL" THEN "signal"
  ELSE IF type = "RISK_WARNING" THEN "warning"
  ELSE IF type = "MONITORING_STATUS" THEN "status"
  ELSE IF type = "TELEGRAM_FORWARD" THEN "telegramRequest"
  ELSE IF type = "STATUS_UPDATE" THEN "statusUpdate"
  ELSE "none"

\* handleWorkerMessage's statement that throws: message.data.error of an
\* ERROR message without data.
HandlerThrows(type, hasData) == type = "ERROR" /\ ~hasData

\* handleWorkerMessage's heartbeat bookkeeping, done before the switch.
UpdatesHeartbeatDedicatedOnly(type) == type = "HEARTBEAT"
UpdatesHeartbeat(type) == TRUE

\* The coordinator's clock advances.
PoolTick ==
  /\ poolNow < MaxPoolTime
  /\ poolNow' = poolNow + 1
  /\ UNCHANGED <<workers, threads, isShuttingDown, healthCheckInterval,
                 initPc, crashing, shutdownPc, terminating, exits, restarts,
                 removed, lastHealthCheck, received, emitted, handled,
                 healthReports, secondShutdown, cleanExits, stratVars,
                 coordVars, monVars>>

\* A running worker posts a message and handleWorkerMessage handles it.
handleWorkerMessage ==
  \E id \in WorkerIds, type \in MessageKinds, hasData \in BOOLEAN :
    /\ threads[id]
    /\ shutdownPc \in {"none", "terminating"}
    /\ handled < MaxMessages
    /\ handled' = handled + 1
    /\ lastHealthCheck' =
         IF id \in DOMAIN workers /\ UpdatesHeartbeat(type)
           THEN [lastHealthCheck EXCEPT ![id] = poolNow]
           ELSE lastHealthCheck
    /\ received' = [from |-> id, type |-> type, hasData |-> hasData,
                    threw |-> HandlerThrows(type, hasData)]
    /\ emitted' = IF EventOf(type) = "none" THEN <<>> ELSE <<EventOf(type)>>
    /\ UNCHANGED <<workers, threads, isShuttingDown, healthCheckInterval,
                   initPc, crashing, shutdownPc, terminating, exits, restarts,
                   removed, poolNow, healthReports, secondShutdown,
                   cleanExits, stratVars, coordVars, monVars>>

\* The health check's staleness test
IsStaleAfterOneInterval(t, last) == t - last > configHealthCheckInterval
IsStale(t, last) == t - last > configHealthCheckInterval * 2

\* The health-check timer fires: a warning is logged for every record whose
\* lastHealthCheck is stale.
HealthCheck ==
  /\ healthCheckInterval
  /\ Len(healthReports) < MaxHealthChecks
  /\ healthReports' = Append(healthReports,
       {id \in DOMAIN workers : IsStale(poolNow, lastHealthCheck[id])})
  /\ UNCHANGED <<workers, threads, isShuttingDown, healthCheckInterval,
                 initPc, crashing, shutdownPc, terminating, exits, restarts,
                 removed, lastHealthCheck, poolNow, received, emitted,
                 handled, secondShutdown, cleanExits, stratVars, coordVars,
                 monVars>>

\* The pool in operation: workers are created and their messages handled.
NextPoolMsg ==
  \/ InitializeSymbolWorker
  \/ InitializeMonitoringWorker
  \/ PoolTick
  \/ handleWorkerMessage

\* An exit of the first symbol worker or of the monitoring worker, every
\* other worker running on.
ExitOfFirstOrMonitor ==
  WorkerExit /\ \A id \in SymbolWorkerIds \ {0} : threads'[id] = threads[id]

\* The pool over time, with crashes and restarts of one worker of each kind.
NextPoolRestart ==
  \/ InitializeSymbolWorker
  \/ InitializeMonitoringWorker
  \/ PoolTick
  \/ ExitOfFirstOrMonitor
  \/ RestartAfterDelay

\* C26: a restart puts a record in the map under the id of the crashed
\* worker, with the type and the symbol group of that id (none for the
\* monitor), lastHealthCheck at the time of the restart and restartCount one
\* above the crashed worker's; the restartCount of an id is the number of
\* restarts it ever had and no step lowers it.
C26_RestartKeepsAssignment ==
  [][\A id \in WorkerIds :
       /\ restarts'[id] # restarts[id] =>
            /\ restarts'[id] = restarts[id] + 1
            /\ id \in DOMAIN workers /\ id \in DOMAIN workers'
            /\ workers'[id].id = id
            /\ workers'[id].type =
                 (IF id = MONITORING_ID THEN "MONITORING" ELSE "SYMBOL")
            /\ workers'[id].type = workers[id].type
            /\ workers'[id].symbols =
                 (IF id = MONITORING_ID THEN <<>> ELSE symbolGroups[id + 1])
            /\ workers'[id].symbols = workers[id].symbols
            /\ workers'[id].restartCount = workers[id].restartCount + 1
            /\ lastHealthCheck'[id] = poolNow
            /\ threads'[id]
       /\ id \in DOMAIN workers' => workers'[id].restartCount = restarts'[id]
       /\ (id \in DOMAIN workers /\ id \in DOMAIN workers') =>
            workers'[id].restartCount >= workers[id].restartCount]_vars

\* A worker created at time 0 is in its third incarnation, started at a
\* later time.
C26_Witness ==
  \E id \in DOMAIN workers :
    /\ workers[id].restartCount = 2
    /\ restarts[id] = 2
    /\ threads[id]
    /\ lastHealthCheck[id] = poolNow
    /\ poolNow > 0

\* The pool with its health check and workers that go silent without
\* exiting.
NextPoolHealth ==
  \/ InitializeSymbolWorker
  \/ InitializeMonitoringWorker
  \/ PoolTick
  \/ handleWorkerMessage
  \/ HealthCheck

\* C22: a run of the health check warns about exactly the records whose
\* lastHealthCheck is more than two check intervals old and changes no
\* record, thread, restart count or pending restart; as long as no worker
\* exits abnormally no worker is restarted, terminated or removed, however
\* stale it is.
C22_HealthCheckOnlyReports ==
  [][/\ Len(healthReports') > Len(healthReports) =>
          /\ healthReports'[Len(healthReports')] =
               {id \in DOMAIN workers :
                  poolNow - lastHealthCheck[id] > 2 * configHealthCheckInterval}
          /\ UNCHANGED <<workers, threads, crashing, terminating, removed,
                         restarts, exits, lastHealthCheck, isShuttingDown,
                         healthCheckInterval>>
     /\ exits' = exits =>
          /\ restarts' = restarts /\ removed' = removed
          /\ crashing' = crashing /\ terminating' = terminating
          /\ \A id \in DOMAIN workers :
               /\ id \in DOMAIN workers' /\ threads'[id]
               /\ workers'[id] = workers[id]]_vars

\* The health check has warned about a worker that was silent for three
\* intervals and not about one with a later lastHealthCheck; both are still
\* running with their first records.
C22_Witness ==
  /\ Len(healthReports) = 1
  /\ \E stale \in healthReports[1], fresh \in DOMAIN workers :
       /\ fresh \notin healthReports[1]
       /\ lastHealthCheck[stale] = 0 /\ lastHealthCheck[fresh] > 0
       /\ threads[stale] /\ threads[fresh]
       /\ workers[stale].restartCount = 0
       /\ restarts[stale] = 0

\* A message of a running worker is handled while the pool is degraded: some
\* worker has been removed for exceeding its budget.
DegradedMessage == removed # {} /\ handleWorkerMessage

\* The pool in operation with crashing workers, and the messages it handles
\* once a worker has been removed.
NextPoolDegraded ==
  \/ InitializeSymbolWorker
  \/ InitializeMonitoringWorker
  \/ WorkerExit
  \/ RestartAfterDelay
  \/ DegradedMessage

\* C21: the step that removes a worker for exceeding its budget leaves every
\* other worker's record (id, type, symbols, restartCount) and thread as they
\* are, terminates and restarts none of them and leaves the pool running;
\* a message a remaining worker posts afterwards is handled as ever: its
\* record's lastHealthCheck is set and the event of its kind is emitted.
C21_RemovalLeavesOthers ==
  [][/\ \A id \in removed' \ removed :
          /\ id \notin DOMAIN workers'
          /\ \A other \in WorkerIds \ {id} :
               /\ other \in DOMAIN workers' <=> other \in DOMAIN workers
               /\ other \in DOMAIN workers => workers'[other] = workers[other]
               /\ threads'[other] = threads[other]
               /\ restarts'[other] = restarts[other]
               /\ exits'[other] = exits[other]
          /\ terminating' = {} /\ crashing' = crashing
          /\ ~isShuttingDown' /\ shutdownPc' = "none"
          /\ healthCheckInterval' = healthCheckInterval
     /\ (removed # {} /\ handled' = handled + 1) =>
          /\ received'.from \notin removed
          /\ threads[received'.from]
          /\ received'.from \in DOMAIN workers =>
               lastHealthCheck'[received'.from] = poolNow
          /\ emitted' = IF EventOf(received'.type) = "none" THEN <<>>
                        ELSE <<EventOf(received'.type)>>
          /\ workers' = workers /\ threads' = threads]_vars

\* One worker has been removed for exceeding its budget, every other worker
\* still has its record, one of them with restarts of its own, and a
\* NEW_SIGNAL of a remaining worker has been handled since.
C21_Witness ==
  /\ Cardinality(removed) = 1
  /\ DOMAIN workers = WorkerIds \ removed
  /\ \E other \in DOMAIN workers :
       workers[other].restartCount > 0 /\ threads[other]
  /\ handled >= 1
  /\ received.type = "NEW_SIGNAL"
  /\ received.from \in DOMAIN workers
  /\ emitted = <<"signal">>

\* C15: the handling of a message of any kind from a worker that has a
\* record sets that record's lastHealthCheck to the time of receipt.
C15_AnyMessageIsHeartbeat ==
  [][handled' = handled + 1 =>
       /\ received'.type \in MessageKinds
       /\ received'.from \in DOMAIN workers =>
            lastHealthCheck'[received'.from] = poolNow]_vars

\* Worker 0, created together with worker 1 at time 0, has a later
\* lastHealthCheck from a STATUS_UPDATE message.
C15_Witness ==
  /\ handled >= 1
  /\ received.type = "STATUS_UPDATE"
  /\ received.from = 0
  /\ {0, 1} \subseteq DOMAIN workers
  /\ lastHealthCheck[1] = 0
  /\ lastHealthCheck[0] = poolNow
  /\ poolNow > 0

\* C16: the handling of a message whose kind is none of the seven protocol
\* kinds and not STATUS_UPDATE throws nothing, emits no coordinator event,
\* and changes nothing of the pool except the sender's lastHealthCheck.
C16_UnknownKindIgnored ==
  [][(handled' = handled + 1 /\
      received'.type \notin ProtocolKinds \cup {"STATUS_UPDATE"}) =>
       /\ ~received'.threw
       /\ emitted' = <<>>
       /\ UNCHANGED <<workers, threads, isShuttingDown, healthCheckInterval,
                      initPc, crashing, shutdownPc, terminating, exits,
                      restarts, removed>>
       /\ \A id \in WorkerIds \ {received'.from} :
            lastHealthCheck'[id] = lastHealthCheck[id]]_vars

\* A message of an unknown kind has been handled.
C16_Witness ==
  /\ handled >= 1
  /\ received.type = "UNKNOWN_KIND"
  /\ received.from \in DOMAIN workers
  /\ emitted = <<>>

\* The instruments of the groups the model follows.
Universe ==
  {SYMBOLS[k] : k \in 1 .. NumSymbolGroups * Len(symbolGroups[1])}
\* The instruments of a worker record.
Assigned(info) == {info.symbols[k] : k \in DOMAIN info.symbols}
\* The records of a kind.
RecordsOf(type) == {id \in DOMAIN workers : workers[id].type = type}

\* C28: the groups initialize() hands out are of equal size, disjoint and
\* cover the configured instruments; the monitor's record exists only once
\* every analyzer has been created; no instrument is ever in the symbols of
\* two records and there is never more than one MONITORING record; and when
\* initialize() is through, as long as no worker has been removed and
\* shutdown() has not cleared the map, every instrument is in the symbols of
\* exactly one SYMBOL record and there is exactly one MONITORING record.
C28_AssignmentIsPartition ==
  /\ \A g \in 1 .. NumSymbolGroups :
       /\ Len(symbolGroups[g]) = Len(symbolGroups[1])
       /\ \A h \in 1 .. NumSymbolGroups : \A i, j \in DOMAIN symbolGroups[g] :
            symbolGroups[g][i] = symbolGroups[h][j] => (g = h /\ i = j)
  /\ Universe =
       {symbolGroups[g][i] : g \in 1 .. NumSymbolGroups,
                             i \in DOMAIN symbolGroups[1]}
  /\ MONITORING_ID \in DOMAIN workers =>
       /\ initPc = NumSymbolGroups + 1
       /\ workers[MONITORING_ID].type = "MONITORING"
  /\ \A a, b \in DOMAIN workers :
       a # b => Assigned(workers[a]) \cap Assigned(workers[b]) = {}
  /\ Cardinality(RecordsOf("MONITORING")) <= 1
  /\ (initPc = NumSymbolGroups + 1 /\ removed = {} /\
      shutdownPc \in {"none", "terminating"}) =>
       /\ \A sym \in Universe :
            Cardinality({id \in RecordsOf("SYMBOL") :
                           sym \in Assigned(workers[id])}) = 1
       /\ Cardinality(RecordsOf("SYMBOL")) = NumSymbolGroups
       /\ Cardinality(RecordsOf("MONITORING")) = 1
       /\ Assigned(workers[MONITORING_ID]) = {}

\* initialize() is through, an analyzer and the monitor have since been
\* restarted, and no worker has been removed.
C28_Witness ==
  /\ initPc = NumSymbolGroups + 1
  /\ removed = {}
  /\ shutdownPc = "none"
  /\ DOMAIN workers = WorkerIds
  /\ workers[MONITORING_ID].restartCount > 0
  /\ \E id \in SymbolWorkerIds : workers[id].restartCount > 0

\* C11: once shutdown() has set isShuttingDown no crash-triggered restart
\* creates a worker, and once shutdown() has returned every worker thread has
\* ended and the pool holds no worker record.
C11_ShutdownStopsRestarts ==
  [][/\ isShuttingDown => restarts' = restarts
     /\ shutdownPc' = "done" =>
          /\ workers' = <<>>
          /\ \A id \in WorkerIds : ~threads'[id]]_vars

\* handleWorkerCrash after the restart delay when the Worker constructor
\* throws: the old record has been deleted, createSymbolWorker or
\* createMonitoringWorker rejects before workers.set and the catch logs.
RestartSpawnThrows ==
  \E c \in crashing :
    /\ shutdownPc = "none"
    /\ crashing' = crashing \ {c}
    /\ workers' = MapDelete(workers, c.id)
    /\ UNCHANGED <<threads, isShuttingDown, healthCheckInterval, initPc,
                   shutdownPc, terminating, exits, restarts, removed,
                   lastHealthCheck, msgVars, stratVars, coordVars, monVars>>

\* The pool with crashes and restarts whose spawn may throw.
NextPoolSpawn ==
  \/ InitializeSymbolWorker
  \/ InitializeMonitoringWorker
  \/ WorkerExit
  \/ RestartAfterDelay
  \/ RestartSpawnThrows

\* The worker ids initialize() has created so far.
Created ==
  {id \in SymbolWorkerIds : id < initPc} \cup
  (IF initPc = NumSymbolGroups + 1 THEN {MONITORING_ID} ELSE {})

\* C31: while the pool is not shut down, every worker id that was created
\* and whose restart budget was not exhausted has a record in the pool.
C31_RecordStaysUnlessExhausted ==
  shutdownPc = "none" =>
    \A id \in Created \ removed : id \in DOMAIN workers

(***************************************************************************)
(*                  SHUTDOWN WHILE THE WORKERS ARE POLLING                 *)
(***************************************************************************)

\* The first analyzer worker's polling timer fires while its thread runs.
WorkerCycleStart == threads[0] /\ CycleStart
\* The running thread evaluates the next instrument of the cycle.
WorkerAnalyzeSymbol == threads[0] /\ AnalyzeSymbol
\* The running thread ends the cycle.
WorkerCycleFinish == threads[0] /\ CycleFinish
\* The monitoring worker's timer fires while its thread runs.
WorkerScanStart == threads[MONITORING_ID] /\ ScanStart
\* The running monitoring thread ends the scan.
WorkerScanFinish == threads[MONITORING_ID] /\ ScanFinish
\* worker.terminate() of shutdown() takes effect: the thread's JavaScript
\* execution is stopped wherever it is and the 'exit' event is emitted.
TerminatedExit == isShuttingDown /\ WorkerExit

NextShutdown ==
  \/ InitializeSymbolWorker
  \/ InitializeMonitoringWorker
  \/ WorkerCycleStart
  \/ WorkerAnalyzeSymbol
  \/ WorkerCycleFinish
  \/ WorkerScanStart
  \/ WorkerScanFinish
  \/ ShutdownBegin
  \/ TerminatedExit
  \/ ShutdownFinish
  \/ ProcessExit

\* C30: once shutdown() has begun, a worker whose thread has stopped is at
\* the top of its polling loop: the first analyzer is in no cycle and the
\* monitor is in no scan.
C30_StopsAtSafePoint ==
  isShuttingDown =>
    /\ ~threads[0] => aPc = "idle"
    /\ ~threads[MONITORING_ID] => mPc = "idle"

\* clearInterval on the stored handle: the timer is stopped, and clearing a
\* handle that was cleared before does nothing.
clearIntervalRearms(armed) == ~armed
clearInterval(armed) == FALSE

\* A second shutdown() call up to its await, made while the first call
\* awaits the terminations or after it has returned: the flag is set again,
\* the handle is cleared again and terminate() is called on the worker of
\* every record still in the map.
ShutdownAgain ==
  /\ shutdownPc \in {"terminating", "done"}
  /\ secondShutdown.pc = "none"
  /\ isShuttingDown' = TRUE
  /\ healthCheckInterval' = clearInterval(healthCheckInterval)
  /\ terminating' = terminating \cup {id \in DOMAIN workers : threads[id]}
  /\ secondShutdown' = [pc |-> "terminating", calledIn |-> shutdownPc]
  /\ UNCHANGED <<workers, threads, initPc, crashing, shutdownPc, exits,
                 restarts, removed, lastHealthCheck, poolNow, received,
                 emitted, handled, healthReports, cleanExits, stratVars,
                 coordVars, monVars>>

\* The second call after its terminations have resolved, which is after the
\* first call's continuation has run: workers.clear().
ShutdownAgainFinish ==
  /\ secondShutdown.pc = "terminating"
  /\ shutdownPc = "done"
  /\ terminating = {}
  /\ workers' = <<>>
  /\ secondShutdown' = [secondShutdown EXCEPT !.pc = "done"]
  /\ UNCHANGED <<threads, isShuttingDown, healthCheckInterval, initPc,
                 crashing, shutdownPc, terminating, exits, restarts, removed,
                 lastHealthCheck, poolNow, received, emitted, handled,
                 healthReports, cleanExits, stratVars, coordVars, monVars>>

\* The pool is initialised, runs its health check and is shut down, with
\* shutdown() called a second time.
NextShutdownTwice ==
  \/ InitializeSymbolWorker
  \/ InitializeMonitoringWorker
  \/ PoolTick
  \/ HealthCheck
  \/ ShutdownBegin
  \/ ShutdownAgain
  \/ TerminatedExit
  \/ ShutdownFinish
  \/ ShutdownAgainFinish
  \/ ProcessExit

\* C32: a step of a second shutdown() call starts no worker thread and
\* restarts nothing, leaves the draining flag set and the health-check timer
\* stopped, and when the call returns the pool holds no worker record and no
\* worker thread runs, which is the state the first call alone leaves.
C32_ShutdownIdempotent ==
  [][secondShutdown' # secondShutdown =>
       /\ threads' = threads
       /\ restarts' = restarts
       /\ isShuttingDown'
       /\ ~healthCheckInterval'
       /\ secondShutdown'.pc = "done" =>
            /\ workers' = <<>>
            /\ \A id \in WorkerIds : ~threads'[id]
            /\ shutdownPc' = "done"]_vars

\* A second call made while the first awaited the terminations of running
\* workers has returned.
C32_Witness ==
  /\ secondShutdown = [pc |-> "done", calledIn |-> "terminating"]
  /\ shutdownPc = "done"
  /\ workers = <<>>


\* The other handlers of the instrument of handler j.
OthersOf(j) ==
  {i \in DOMAIN handlers \ {j} :
     handlers[i].signal.symbol = handlers[j].signal.symbol}

\* C33: the step in which handleNewSignal discards a candidate is taken on a
\* score below the threshold and changes neither the store nor the
\* notifications nor the cooldown map; a discarded candidate has no document
\* and set no cooldown; and a candidate whose instrument has only discarded
\* candidates so far passes the cooldown check and is scored.
C33_DiscardHasNoSideEffect ==
  [][\A i \in DOMAIN handlers :
       /\ (handlers[i].pc = "score" /\ handlers'[i].outcome = "discarded") =>
            /\ handlers'[i].score < AcceptScore
            /\ signalStore' = signalStore
            /\ notified' = notified
            /\ signalCooldowns' = signalCooldowns
       /\ handlers'[i].outcome = "discarded" =>
            /\ PersistedBy(i)' = {}
            /\ ~handlers'[i].cooldownSet
       /\ (/\ handlers[i].pc = "lookup"
           /\ handlers'[i].pc \notin {"lookup", "lost"}
           /\ OthersOf(i) # {}
           /\ \A k \in OthersOf(i) : handlers[k].outcome = "discarded") =>
            handlers'[i].pc = "score"]_vars

\* A candidate was discarded and a later candidate of the same instrument
\* was scored and accepted.
C33_Witness ==
  /\ Len(handlers) = 2
  /\ handlers[1].outcome = "discarded"
  /\ handlers[1].score < AcceptScore
  /\ handlers[2].signal.symbol = handlers[1].signal.symbol
  /\ handlers[2].outcome = "sent"
  /\ Len(signalStore) = 1
  /\ Len(notified) = 1

\* The handlers that have sent their notification.
Sent == {i \in DOMAIN handlers : handlers[i].outcome = "sent"}

\* C35: a notification is sent only by a handler whose insert has succeeded
\* and that has not set the cooldown yet; the cooldown of an instrument is
\* set only in the step that sends a notification for it; and a handler
\* whose insert failed has no document, has sent nothing and has set no
\* cooldown.
C35_PersistNotifyCooldown ==
  [][/\ notified' # notified =>
          \E i \in DOMAIN handlers :
            /\ handlers[i].pc = "notify"
            /\ Cardinality(PersistedBy(i)) = 1
            /\ ~handlers[i].cooldownSet
            /\ notified' = Append(notified, handlers[i].signal)
            /\ handlers'[i].outcome = "sent"
     /\ \A s \in Symbols :
          (signalCooldowns'[s] # signalCooldowns[s] /\ signalCooldowns'[s] # 0) =>
            /\ Len(notified') = Len(notified) + 1
            /\ notified'[Len(notified')].symbol = s
     /\ \A i \in DOMAIN handlers' :
          handlers'[i].outcome = "createFailed" =>
            /\ PersistedBy(i)' = {}
            /\ ~handlers'[i].cooldownSet
     /\ Len(notified') = Cardinality(Sent')]_vars

\* The insert of one candidate failed and nothing was sent or recorded for
\* it, while a candidate of another instrument was persisted and sent.
C35_Witness ==
  \E i, j \in DOMAIN handlers :
    /\ handlers[i].outcome = "createFailed"
    /\ handlers[j].outcome = "sent"
    /\ handlers[i].signal.symbol # handlers[j].signal.symbol
    /\ signalCooldowns[handlers[i].signal.symbol] = 0
    /\ signalCooldowns[handlers[j].signal.symbol] # 0
    /\ Len(notified) = 1
    /\ Len(signalStore) = 1

\* The stop distances and the closes the risk analysis is followed on: a
\* stop 2 or 5 away from the entry of 100, closes around the entry.
StopDistances == {2, 5}
RiskPrices == 97 .. 103

\* An open Signal whose stop is the given distance behind its entry.
RiskSignal(id, direction, distance) ==
  [NewSignalDoc(id, direction, TRUE, FALSE) EXCEPT
     !.stopLoss = IF direction = "LONG" THEN @ + 5 - distance
                  ELSE @ - 5 + distance]

\* analyzeRisk of one open Signal with the price fetched now, the warning
\* recorded with what it was decided on.
analyzeRiskOfSignal ==
  /\ \E id \in SignalIds, direction \in {"LONG", "SHORT"},
        distance \in StopDistances, currentPrice \in RiskPrices :
       LET signal == RiskSignal(id, direction, distance)
           inZone ==
             \/ isApproachingSL(currentPrice, signal.entryPrice,
                                signal.stopLoss, signal.direction)
             \/ isExcessiveLoss(currentPrice, signal.entryPrice,
                                signal.direction)
       IN  /\ inZone
           /\ CooldownOver(warningsSent[signal.symbol], riskNow)
           /\ warningsSent' = [warningsSent EXCEPT ![signal.symbol] = riskNow]
           /\ warnings' = Append(warnings,
                [symbol |-> signal.symbol, at |-> riskNow,
                 currentPrice |-> currentPrice,
                 entryPrice |-> signal.entryPrice,
                 stopLoss |-> signal.stopLoss,
                 direction |-> signal.direction])
  /\ UNCHANGED <<riskNow, monitorRestarts, riskScan,
                 mSignals, price, mPc, openSignals, statusUpdates, posted,
                 writes, cleanScans, scanClean, openAtMove, eodSummaries,
                 failedWrites, failedFetches, overlap, stratVars, coordVars,
                 poolVars>>

NextRiskZone == RiskTick \/ analyzeRiskOfSignal

\* C34: every early-exit warning was decided on a price that has travelled
\* more than half of the distance from the entry to the stop, or on an
\* unrealized loss of more than 1.5 percent.
C34_WarningBeyondThreshold ==
  \A k \in DOMAIN warnings :
    LET w == warnings[k]
        risk == IF w.entryPrice >= w.stopLoss THEN w.entryPrice - w.stopLoss
                ELSE w.stopLoss - w.entryPrice
        travelled == IF w.direction = "LONG" THEN w.entryPrice - w.currentPrice
                     ELSE w.currentPrice - w.entryPrice
        lossTimes2 == -2 * calculatePnLPercentage(w.entryPrice, w.currentPrice,
                                                  w.direction)
    IN  2 * travelled > risk \/ lossTimes2 > 3

\* The closes the monitoring cycle is followed on: behind the stop of a LONG
\* Signal, between its entry and its stop, and at its first target.
CyclePrices == {94, 97, 105}

\* A Signal with stop and targets is persisted.
CycleSignalOpened ==
  /\ SignalOpened
  /\ \A id \in DOMAIN mSignals' :
       mSignals'[id].hasTPs /\ mSignals'[id].stopLoss # mSignals'[id].entryPrice

\* The 1m close of an instrument changes.
CyclePriceMove ==
  /\ riskScan.pc = "idle"
  /\ \E sym \in Symbols, p \in CyclePrices :
       /\ p # price[sym]
       /\ price' = [price EXCEPT ![sym] = p]
  /\ cleanScans' = 0
  /\ scanClean' = FALSE
  /\ openAtMove' = {id \in DOMAIN mSignals : mSignals[id].status = "OPEN"}
  /\ UNCHANGED <<mSignals, mPc, openSignals, statusUpdates, posted, writes,
                 eodSummaries, riskVars, failedWrites, failedFetches, overlap,
                 stratVars, coordVars, poolVars>>

\* The timer calls monitorPositions after the previous call has returned.
CycleScanStart == riskScan.pc = "idle" /\ ScanStart

\* monitorPositions' query for the risk analysis: find({status: 'OPEN'})
RiskFindFilterAll(sig) == TRUE
RiskFindFilter(sig) == sig.status = "OPEN"

\* monitorOpenSignals returns, monitorPositions posts one STATUS_UPDATE per
\* update and reads the open Signals for the risk analysis.
ScanFinishAndFind ==
  /\ mPc = "scanning"
  /\ openSignals = <<>>
  /\ mPc' = "idle"
  /\ posted' = posted \o statusUpdates
  /\ statusUpdates' = <<>>
  /\ cleanScans' = IF ~scanClean THEN cleanScans
                   ELSE IF cleanScans < 2 THEN cleanScans + 1 ELSE 2
  /\ riskScan' =
       [pc |-> "risk",
        openSignals |-> AsList({id \in DOMAIN mSignals :
                                  RiskFindFilter(mSignals[id])}),
        transitioned |-> {statusUpdates[k].id : k \in DOMAIN statusUpdates},
        warned |-> {}]
  /\ UNCHANGED <<mSignals, price, openSignals, writes, scanClean, openAtMove,
                 eodSummaries, riskNow, warningsSent, warnings,
                 monitorRestarts, failedWrites, failedFetches, overlap,
                 stratVars, coordVars, poolVars>>

\* monitorPositions' second loop body: analyzeRisk for the next Signal of
\* the list, with the price fetched now.
RiskAnalyze ==
  /\ riskScan.pc = "risk"
  /\ riskScan.openSignals # <<>>
  /\ LET id == Head(riskScan.openSignals)
         signal == mSignals[id]
         currentPrice == price[signal.symbol]
         inZone ==
           \/ isApproachingSL(currentPrice, signal.entryPrice,
                              signal.stopLoss, signal.direction)
           \/ isExcessiveLoss(currentPrice, signal.entryPrice,
                              signal.direction)
         warn == inZone /\ CooldownOver(warningsSent[signal.symbol], riskNow)
     IN  /\ warningsSent' = IF warn
                              THEN [warningsSent EXCEPT ![signal.symbol] = riskNow]
                              ELSE warningsSent
         /\ warnings' = IF warn
                          THEN Append(warnings, [symbol |-> signal.symbol,
                                                 at |-> riskNow])
                          ELSE warnings
         /\ riskScan' = [riskScan EXCEPT
                           !.openSignals = Tail(@),
                           !.warned = IF warn THEN @ \cup {id} ELSE @]
  /\ UNCHANGED <<riskNow, monitorRestarts, mSignals, price, mPc, openSignals,
                 statusUpdates, posted, writes, cleanScans, scanClean,
                 openAtMove, eodSummaries, failedWrites, failedFetches,
                 overlap, stratVars, coordVars, poolVars>>

\* The risk loop is through: MONITORING_STATUS is posted and monitorPositions
\* returns.
RiskFinish ==
  /\ riskScan.pc = "risk"
  /\ riskScan.openSignals = <<>>
  /\ riskScan' = NoRiskScan
  /\ UNCHANGED <<riskNow, warningsSent, warnings, monitorRestarts, mSignals,
                 price, mPc, openSignals, statusUpdates, posted, writes,
                 cleanScans, scanClean, openAtMove, eodSummaries,
                 failedWrites, failedFetches, overlap, stratVars, coordVars,
                 poolVars>>

\* The monitoring cycle: the TP/SL scan followed by the risk analysis.
NextMonitorCycle ==
  \/ CycleSignalOpened
  \/ CyclePriceMove
  \/ CycleScanStart
  \/ CheckSignal
  \/ ScanFinishAndFind
  \/ RiskAnalyze
  \/ RiskFinish

\* C36: in a monitoring cycle the risk analysis runs over Signals that are
\* OPEN and that the TP/SL scan of the cycle has not transitioned, and no
\* Signal the scan of the cycle has transitioned gets a warning in it.
C36_RiskAfterScan ==
  riskScan.pc = "risk" =>
    /\ riskScan.warned \cap riskScan.transitioned = {}
    /\ \A k \in DOMAIN riskScan.openSignals :
         /\ riskScan.openSignals[k] \notin riskScan.transitioned
         /\ mSignals[riskScan.openSignals[k]].status = "OPEN"
    /\ \A id \in riskScan.transitioned : mSignals[id].status # "OPEN"

\* In one cycle the scan has closed one Signal at its stop and the risk
\* analysis has warned about the other, which is still open.
C36_Witness ==
  /\ riskScan.pc = "risk"
  /\ \E id \in riskScan.transitioned : mSignals[id].status = "HIT_SL"
  /\ \E id \in riskScan.warned : mSignals[id].status = "OPEN"
  /\ riskScan.openSignals = <<>>

\* The 'exit' handler's test: `code !== 0 && !this.isShuttingDown`.
IsCrashOnAnyExit(code, shuttingDown) == ~shuttingDown
IsCrash(code, shuttingDown) == code # 0 /\ ~shuttingDown

\* WorkerPoolManager.getStatus
getStatus(map) ==
  LET list == {[id |-> map[k].id, type |-> map[k].type,
                symbols |-> map[k].symbols,
                restarts |-> map[k].restartCount] : k \in DOMAIN map}
  IN  [totalWorkers |-> Cardinality(DOMAIN map),
       symbolWorkers |-> Cardinality({w \in list : w.type = "SYMBOL"}),
       monitoringWorkers |-> Cardinality({w \in list : w.type = "MONITORING"}),
       workers |-> list]

\* A worker thread ends with some exit code and the 'exit' handler runs, as
\* in WorkerExit, with the exits of code 0 outside shutdown recorded.
WorkerExitWithCode ==
  \E id \in WorkerIds, code \in ExitCodes :
    /\ shutdownPc = "none"
    /\ threads[id]
    /\ exits[id] < MaxExits
    /\ threads' = [threads EXCEPT ![id] = FALSE]
    /\ cleanExits' = IF code = 0 /\ ~isShuttingDown THEN cleanExits \cup {id}
                     ELSE cleanExits
    /\ IF IsCrash(code, isShuttingDown)
         THEN /\ exits' = [exits EXCEPT ![id] = @ + 1]
              /\ IF id \notin DOMAIN workers
                   THEN UNCHANGED <<workers, crashing, removed>>
                   ELSE IF BudgetExhausted(workers[id].restartCount)
                     THEN /\ workers' = MapDelete(workers, id)
                          /\ removed' = removed \cup {id}
                          /\ UNCHANGED crashing
                     ELSE /\ crashing' = crashing \cup
                               {[id |-> id,
                                 restartCount |-> workers[id].restartCount]}
                          /\ UNCHANGED <<workers, removed>>
         ELSE UNCHANGED <<workers, crashing, removed, exits>>
    /\ UNCHANGED <<isShuttingDown, healthCheckInterval, initPc, shutdownPc,
                   terminating, restarts, lastHealthCheck, poolNow, received,
                   emitted, handled, healthReports, secondShutdown, stratVars,
                   coordVars, monVars>>

\* The pool with workers that crash or exit cleanly.
NextPoolCleanExit ==
  \/ InitializeSymbolWorker
  \/ InitializeMonitoringWorker
  \/ WorkerExitWithCode
  \/ RestartAfterDelay

\* C37: the exit of a worker with code 0 while the pool is not shutting down
\* changes no record, starts no crash handling and removes nothing; from
\* then on its thread does not run, no handler restarts it, and its record
\* is in the pool with the restart count it had and is among the workers
\* getStatus counts and lists.
C37_CleanExitLeavesRecord ==
  [][/\ cleanExits' # cleanExits =>
          /\ workers' = workers
          /\ crashing' = crashing
          /\ removed' = removed
          /\ restarts' = restarts
          /\ getStatus(workers') = getStatus(workers)
     /\ \A id \in cleanExits :
          /\ ~threads'[id]
          /\ id \notin removed'
          /\ \A c \in crashing' : c.id # id
          /\ id \in DOMAIN workers'
          /\ workers'[id] = workers[id]
          /\ getStatus(workers').totalWorkers >= 1
          /\ \E w \in getStatus(workers').workers :
               /\ w.id = id
               /\ w.restarts = workers[id].restartCount]_vars

\* An analyzer that had been restarted once has exited with code 0: the
\* pool is complete in getStatus although the thread does not run.
C37_Witness ==
  /\ 0 \in cleanExits
  /\ ~threads[0]
  /\ workers[0].restartCount = 1
  /\ initPc = NumSymbolGroups + 1
  /\ getStatus(workers).totalWorkers = NumSymbolGroups + 1
  /\ getStatus(workers).symbolWorkers = NumSymbolGroups

\* C38: every worker record has a restart count between 0 and maxRestarts
\* that equals the number of restarts of its id so far, which never
\* decreases; a record that is in the pool before and after a step has not
\* a lower count after it; and no worker id has two handleWorkerCrash calls
\* awaiting their restart delay.
C38_RestartCountBounded ==
  [][/\ \A id \in DOMAIN workers' :
          /\ workers'[id].restartCount \in 0 .. maxRestarts
          /\ workers'[id].restartCount = restarts'[id]
     /\ \A id \in WorkerIds : restarts'[id] >= restarts[id]
     /\ \A id \in DOMAIN workers \cap DOMAIN workers' :
          workers'[id].restartCount >= workers[id].restartCount
     /\ \A c1, c2 \in crashing' : c1.id = c2.id => c1 = c2]_vars

\* One analyzer has used its whole budget while the crash handler of
\* another one awaits its restart delay.
C38_Witness ==
  /\ 0 \in DOMAIN workers
  /\ workers[0].restartCount = maxRestarts
  /\ threads[0]
  /\ \E c \in crashing : c.id = 1 /\ c.restartCount = 1

Init == InitStrategy /\ InitCoord /\ InitMonitor /\ InitPool

SpecStrategy == Init /\ [][NextStrategy]_vars
SpecKlines == Init /\ [][NextKlines]_vars
SpecAnalyzer == Init /\ [][NextAnalyzer]_vars
SpecCoord == Init /\ [][NextCoord]_vars
SpecCoordAI == Init /\ [][NextCoordAI]_vars
SpecMonitor == Init /\ [][NextMonitor]_vars
SpecMonitorOverlap == Init /\ [][NextMonitorOverlap]_vars
SpecMonitorCrash == Init /\ [][NextMonitorCrash]_vars
SpecMonitorQuiet == Init /\ [][NextMonitorQuiet]_vars
SpecMonitorFaults == Init /\ [][NextMonitorFaults]_vars
SpecEod == Init /\ [][NextEod]_vars
SpecRisk == Init /\ [][NextRisk]_vars
SpecShutdown == Init /\ [][NextShutdown]_vars
SpecPoolSpawn == Init /\ [][NextPoolSpawn]_vars
SpecShutdownTwice == Init /\ [][NextShutdownTwice]_vars
SpecRiskZone == Init /\ [][NextRiskZone]_vars
SpecMonitorCycle == Init /\ [][NextMonitorCycle]_vars
SpecPoolCleanExit == Init /\ [][NextPoolCleanExit]_vars
SpecPool == Init /\ [][NextPool]_vars
SpecPoolDegraded == Init /\ [][NextPoolDegraded]_vars
SpecPoolHealth == Init /\ [][NextPoolHealth]_vars
SpecPoolRestart == Init /\ [][NextPoolRestart]_vars
SpecPoolMsg == Init /\ [][NextPoolMsg]_vars

====
